---- MODULE Spec2Model ----
(***************************************************************************)
(* chess-autopost: renderer timing helpers, segment layout, the alternative *)
(* preview's evaluation label and the analysis_cache table.                *)
(*                                                                         *)
(* Numbers.  The TypeScript code computes on IEEE doubles.  The model      *)
(* keeps every quantity exact:                                             *)
(*   - durations are integer milliseconds;                                 *)
(*   - a cue time (seconds from scene start) is carried in thousandths of  *)
(*     a second, so `cueTimes[keyword] * 1000` is that integer;            *)
(*   - a fallback fraction is carried in hundredths (0.35 is 35);          *)
(*   - Math.round(n / d) is RoundDiv(n, d) = floor(n/d + 1/2).            *)
(* An optional JSON value is a tagged record: a number, null or undefined, *)
(* and NaN where the arithmetic of the code produces it.                   *)
(***************************************************************************)
EXTENDS Integers, Sequences, FiniteSets, TLC

\* ---------------------------------------------------------------- values

Undef == [k |-> "undefined", v |-> 0]

Null == [k |-> "null", v |-> 0]

NaN == [k |-> "NaN", v |-> 0]

Num(n) == [k |-> "number", v |-> n]

IsNum(x) == x.k = "number"

\* JavaScript truthiness of an optional number
Truthy(x) == IsNum(x) /\ x.v # 0

\* Math.max / Math.min on integers
Max(a, b) == IF a >= b THEN a ELSE b

Min(a, b) == IF a <= b THEN a ELSE b

\* Math.round(n / d) for d > 0: the nearest integer, a tie going up.
RoundDiv(n, d) == (2 * n + d) \div (2 * d)

\* ------------------------------------------------- cue resolution (inputs)

Keywords == {"pinned", "eval"}

\* cue times in thousandths of a second; 5000 lies beyond every scene
CueEntries == {Undef, Null, Num(-200), Num(0), Num(620), Num(1170), Num(5000)}

\* cueTimes is undefined, or an object holding an entry (or none) per keyword
CueMaps == {[defined |-> FALSE, map |-> [w \in Keywords |-> Undef]]}
             \cup {[defined |-> TRUE, map |-> m] : m \in [Keywords -> CueEntries]}

SceneDurations == {1200, 2000, 2500}

\* fallback fractions the scenes pass: 0.0, 0.1, 0.35, 0.5 (in hundredths)
FallbackPercents == {0, 10, 35, 50}

FrameRates == {24, 30}

VARIABLES sceneDurationMs, cueTimes, keyword, fallbackPercent, fps,
          timingAudio, timingBrowserSafe, timingAudioBrowser

VARIABLES audioDurationMs, minDuration, maxDuration, paddingMs,
          durationAudio, durationBrowserSafe

VARIABLES videoFps, timeline, timelineState, segments, computed,
          timelineResponse, durations, durationsState, rendered

VARIABLES games, gamesSeq, analysis_cache, analysisSeq

VARIABLES cp, mate, previewFirst, previewSecond

VARIABLES evalTarget, evalDelay, evalDuration, evalFrame, evalBar

VARIABLES loaderCall

VARIABLES normInput, textResult, moveResult

VARIABLES estimateScenes, estimateAudio, estimate

VARIABLES tagMeta, tagScenes, tagsResult, highlightsResult

VARIABLES uploaderCall

VARIABLES chapterScenes, chaptersResult

VARIABLES ttsState, ttsCalls, ttsLines, ttsOptions, ttsIndex, ttsProcessed,
          ttsResults, ttsWritten, cacheFiles, ttsLast

timingVars == <<sceneDurationMs, cueTimes, keyword, fallbackPercent, fps,
                timingAudio, timingBrowserSafe, timingAudioBrowser>>

durationVars == <<audioDurationMs, minDuration, maxDuration, paddingMs,
                  durationAudio, durationBrowserSafe>>

videoVars == <<videoFps, timeline, timelineState, segments, computed,
               timelineResponse, durations, durationsState, rendered>>

storeVars == <<games, gamesSeq, analysis_cache, analysisSeq>>

previewVars == <<cp, mate, previewFirst, previewSecond>>

evalBarVars == <<evalTarget, evalDelay, evalDuration, evalFrame, evalBar>>

loadersVars == <<loaderCall>>

normalizerVars == <<normInput, textResult, moveResult>>

estimateVars == <<estimateScenes, estimateAudio, estimate>>

tagsVars == <<tagMeta, tagScenes, tagsResult, highlightsResult>>

uploaderVars == <<uploaderCall>>

chaptersVars == <<chapterScenes, chaptersResult>>

ttsVars == <<ttsState, ttsCalls, ttsLines, ttsOptions, ttsIndex, ttsProcessed,
             ttsResults, ttsWritten, cacheFiles, ttsLast>>

\* what each group of operations leaves alone
notTiming == <<durationVars, videoVars, storeVars, previewVars, evalBarVars,
    loadersVars, ttsVars, normalizerVars, estimateVars, tagsVars,
    uploaderVars, chaptersVars>>

notDuration == <<timingVars, videoVars, storeVars, previewVars, evalBarVars,
    loadersVars, ttsVars, normalizerVars, estimateVars, tagsVars,
    uploaderVars, chaptersVars>>

notVideo == <<timingVars, durationVars, storeVars, previewVars, evalBarVars,
    loadersVars, ttsVars, normalizerVars, estimateVars, tagsVars,
    uploaderVars, chaptersVars>>

notStore == <<timingVars, durationVars, videoVars, previewVars, evalBarVars,
    loadersVars, ttsVars, normalizerVars, estimateVars, tagsVars,
    uploaderVars, chaptersVars>>

notPreview == <<timingVars, durationVars, videoVars, storeVars, evalBarVars,
    loadersVars, ttsVars, normalizerVars, estimateVars, tagsVars,
    uploaderVars, chaptersVars>>

notEvalBar == <<timingVars, durationVars, videoVars, storeVars, previewVars,
    loadersVars, ttsVars, normalizerVars, estimateVars, tagsVars,
    uploaderVars, chaptersVars>>

notLoaders == <<timingVars, durationVars, videoVars, storeVars, previewVars,
    evalBarVars, ttsVars, normalizerVars, estimateVars, tagsVars,
    uploaderVars, chaptersVars>>

notTts == <<timingVars, durationVars, videoVars, storeVars, previewVars,
    evalBarVars, loadersVars, normalizerVars, estimateVars, tagsVars,
    uploaderVars, chaptersVars>>

notNormalizer == <<timingVars, durationVars, videoVars, storeVars,
    previewVars, evalBarVars, loadersVars, ttsVars, estimateVars, tagsVars,
    uploaderVars, chaptersVars>>

notEstimate == <<timingVars, durationVars, videoVars, storeVars, previewVars,
    evalBarVars, loadersVars, ttsVars, normalizerVars, tagsVars,
    uploaderVars, chaptersVars>>

notTags == <<timingVars, durationVars, videoVars, storeVars, previewVars,
    evalBarVars, loadersVars, ttsVars, normalizerVars, estimateVars,
    uploaderVars, chaptersVars>>

notUploader == <<timingVars, durationVars, videoVars, storeVars, previewVars,
    evalBarVars, loadersVars, ttsVars, normalizerVars, estimateVars,
    tagsVars, chaptersVars>>

notChapters == <<timingVars, durationVars, videoVars, storeVars, previewVars,
    evalBarVars, loadersVars, ttsVars, normalizerVars, estimateVars,
    tagsVars, uploaderVars>>

NoTiming == [called |-> FALSE, startFrame |-> 0, endFrame |-> 0, durationFrames |-> 0]

\* ------------------------------------------------ lib/audio.ts (renderer)

\* A time in milliseconds as the exact fraction num / den.
\* getCueTime: the cue in ms when cueTimes[keyword] !== undefined (null * 1000
\* is 0), else fallbackPercent itself, returned where milliseconds are expected.
getCueTime(ct, kw, fb) ==
  IF ct.defined /\ ct.map[kw].k # "undefined"
  THEN [num |-> ct.map[kw].v, den |-> 1]
  ELSE [num |-> fb, den |-> 100]

\* timeToFrame(timeMs, fps) = Math.round((timeMs / 1000) * fps)
timeToFrame(t, f) == RoundDiv(t.num * f, t.den * 1000)

getAnimationTimingAudio(dur, ct, kw, fb, f) ==
  LET cueTimeMs == getCueTime(ct, kw, fb)
      startFrame == timeToFrame(cueTimeMs, f)
      endFrame == timeToFrame([num |-> dur, den |-> 1], f)
      durationFrames == endFrame - startFrame
  IN [called |-> TRUE,
      startFrame |-> Max(0, startFrame),
      endFrame |-> Max(startFrame + 1, endFrame),
      durationFrames |-> Max(1, durationFrames)]

\* ------------------------------------ browser-safe audio utilities (part_005)

\* startMs: the cue in ms when typeof cueTimes[keyword] === 'number', else
\* sceneDurationMs * fallbackPercent.
startMsBrowserSafe(dur, ct, kw, fb) ==
  IF ct.defined /\ IsNum(ct.map[kw])
  THEN [num |-> ct.map[kw].v, den |-> 1]
  ELSE [num |-> dur * fb, den |-> 100]

getAnimationTimingBrowserSafe(dur, ct, kw, fb, f) ==
  LET startMs == startMsBrowserSafe(dur, ct, kw, fb)
      startFrame == Max(0, timeToFrame(startMs, f))
      endFrame == Max(startFrame + 1, timeToFrame([num |-> dur, den |-> 1], f))
      durationFrames == Max(1, endFrame - startFrame)
  IN [called |-> TRUE, startFrame |-> startFrame, endFrame |-> endFrame,
      durationFrames |-> durationFrames]

\* ------------------------------------------- audio-browser.ts (Arrow.tsx)

\* frac = Math.max(0, Math.min(1, cueTimes?.[key] ?? defaultPercent)), as the
\* exact fraction num / den: the cue VALUE itself is used as a fraction of the
\* duration; ?? replaces null and undefined alike.
fracAudioBrowser(ct, kw, fb) ==
  LET e == IF ct.defined THEN ct.map[kw] ELSE Undef
      raw == IF IsNum(e) THEN [num |-> e.v, den |-> 1000] ELSE [num |-> fb, den |-> 100]
  IN IF raw.num < 0 THEN [num |-> 0, den |-> 1]
     ELSE IF raw.num > raw.den THEN [num |-> 1, den |-> 1]
     ELSE raw

getAnimationTimingAudioBrowser(dur, ct, kw, fb, f) ==
  LET frac == fracAudioBrowser(ct, kw, fb)
      startMs == [num |-> dur * frac.num, den |-> frac.den]
  IN [called |-> TRUE, startFrame |-> timeToFrame(startMs, f),
      endFrame |-> 0, durationFrames |-> 0]

\* ------------------------------------------------------ timing: the machine

TimingInit ==
  /\ sceneDurationMs \in SceneDurations
  /\ cueTimes \in CueMaps
  /\ keyword \in Keywords
  /\ fallbackPercent \in FallbackPercents
  /\ fps \in FrameRates
  /\ timingAudio = NoTiming
  /\ timingBrowserSafe = NoTiming
  /\ timingAudioBrowser = NoTiming

CallTimingAudio ==
  /\ ~timingAudio.called
  /\ timingAudio' = getAnimationTimingAudio(sceneDurationMs, cueTimes, keyword, fallbackPercent, fps)
  /\ UNCHANGED <<sceneDurationMs, cueTimes, keyword, fallbackPercent, fps,
                 timingBrowserSafe, timingAudioBrowser>>
  /\ UNCHANGED notTiming

CallTimingBrowserSafe ==
  /\ ~timingBrowserSafe.called
  /\ timingBrowserSafe' = getAnimationTimingBrowserSafe(sceneDurationMs, cueTimes, keyword, fallbackPercent, fps)
  /\ UNCHANGED <<sceneDurationMs, cueTimes, keyword, fallbackPercent, fps,
                 timingAudio, timingAudioBrowser>>
  /\ UNCHANGED notTiming

CallTimingAudioBrowser ==
  /\ ~timingAudioBrowser.called
  /\ timingAudioBrowser' = getAnimationTimingAudioBrowser(sceneDurationMs, cueTimes, keyword, fallbackPercent, fps)
  /\ UNCHANGED <<sceneDurationMs, cueTimes, keyword, fallbackPercent, fps,
                 timingAudio, timingBrowserSafe>>
  /\ UNCHANGED notTiming

TimingNext == CallTimingAudio \/ CallTimingBrowserSafe \/ CallTimingAudioBrowser

\* ------------------------------------------------------- timing: the claims

\* the number of frames a scene of sceneDurationMs occupies at fps
SceneFrames == Max(1, RoundDiv(sceneDurationMs * fps, 1000))

TimingResults == {timingAudio, timingBrowserSafe, timingAudioBrowser}

\* the entry cueTimes holds for the keyword (undefined when cueTimes is)
CueEntry == IF cueTimes.defined THEN cueTimes.map[keyword] ELSE Undef

\* C1: the start frame every getAnimationTiming resolves lies inside the
\* scene, 0 <= startFrame < number of frames of the scene; a cue beyond the
\* scene duration is clamped to the last valid offset.
C1_StartWithinScene ==
  \A r \in TimingResults : r.called => (0 <= r.startFrame /\ r.startFrame < SceneFrames)

\* C2: in lib/audio.ts and in the browser-safe utilities the start frame is
\* round(seconds * fps) when cueTimes holds a number (a time from scene
\* start, so >= 0) for the keyword, and
\* round(fallbackFraction * sceneDurationMs * fps / 1000) when cueTimes is
\* undefined or has no entry for the keyword.
C2_StartFromCueOrFallback ==
  \A r \in {timingAudio, timingBrowserSafe} :
    r.called =>
      /\ (IsNum(CueEntry) /\ CueEntry.v >= 0)
           => r.startFrame = RoundDiv(CueEntry.v * fps, 1000)
      /\ (CueEntry = Undef)
           => r.startFrame = RoundDiv(fallbackPercent * sceneDurationMs * fps, 100 * 1000)

\* C3: for the same inputs the three getAnimationTiming implementations
\* return the same startFrame, with the keyword present and with the fallback.
C3_SameStartFrame ==
  (timingAudio.called /\ timingBrowserSafe.called /\ timingAudioBrowser.called)
    => /\ timingAudio.startFrame = timingBrowserSafe.startFrame
       /\ timingBrowserSafe.startFrame = timingAudioBrowser.startFrame

\* --------------------------------------------------- calculateSceneDuration

DefaultMinDurationAudio == 1200

DefaultMaxDurationAudio == 2500

DefaultPaddingMsAudio == 150

DefaultMinDurationBrowserSafe == 1200

DefaultMaxDurationBrowserSafe == 2500

DefaultPaddingMsBrowserSafe == 150

\* a parameter with a default value: the default replaces undefined
OrDefault(x, d) == IF x.k = "undefined" THEN d ELSE x.v

\* measured audio durations, 0 ms and one hour among them
AudioDurations == {0, 900, 1050, 1500, 2350, 2400, 3600000}

MinDurations == {Undef, Num(0), Num(1200), Num(2000)}

MaxDurations == {Undef, Num(1500), Num(2000), Num(2500)}

Paddings == {Undef, Num(0), Num(150)}

NoDuration == [called |-> FALSE, value |-> 0]

\* mutant: the upper clamp is forgotten
calculateSceneDurationAudio_NoUpperClamp(a, mn, mx, pad) ==
  Max(OrDefault(mn, DefaultMinDurationAudio), a + OrDefault(pad, DefaultPaddingMsAudio))

\* lib/audio.ts
calculateSceneDurationAudio(a, mn, mx, pad) ==
  LET totalDuration == a + OrDefault(pad, DefaultPaddingMsAudio)
  IN Max(OrDefault(mn, DefaultMinDurationAudio),
         Min(OrDefault(mx, DefaultMaxDurationAudio), totalDuration))

\* mutant: the padding is not added
calculateSceneDurationBrowserSafe_NoPadding(a, mn, mx, pad) ==
  Max(OrDefault(mn, DefaultMinDurationBrowserSafe),
      Min(OrDefault(mx, DefaultMaxDurationBrowserSafe), a))

\* the browser-safe utilities
calculateSceneDurationBrowserSafe(a, mn, mx, pad) ==
  LET total == a + OrDefault(pad, DefaultPaddingMsBrowserSafe)
  IN Max(OrDefault(mn, DefaultMinDurationBrowserSafe),
         Min(OrDefault(mx, DefaultMaxDurationBrowserSafe), total))

DurationInit ==
  /\ audioDurationMs \in AudioDurations
  /\ minDuration \in MinDurations
  /\ maxDuration \in MaxDurations
  /\ paddingMs \in Paddings
  /\ durationAudio = NoDuration
  /\ durationBrowserSafe = NoDuration

CallDurationAudio ==
  /\ ~durationAudio.called
  /\ durationAudio' = [called |-> TRUE,
       value |-> calculateSceneDurationAudio(audioDurationMs, minDuration, maxDuration, paddingMs)]
  /\ UNCHANGED <<audioDurationMs, minDuration, maxDuration, paddingMs, durationBrowserSafe>>
  /\ UNCHANGED notDuration

CallDurationBrowserSafe ==
  /\ ~durationBrowserSafe.called
  /\ durationBrowserSafe' = [called |-> TRUE,
       value |-> calculateSceneDurationBrowserSafe(audioDurationMs, minDuration, maxDuration, paddingMs)]
  /\ UNCHANGED <<audioDurationMs, minDuration, maxDuration, paddingMs, durationAudio>>
  /\ UNCHANGED notDuration

DurationNext == CallDurationAudio \/ CallDurationBrowserSafe

\* ---------------------------------------- calculateSceneDuration: the claims

\* the bounds and the padding in effect, the documented defaults for an
\* omitted argument (1200, 2500 and 150 ms)
MinInEffect == IF minDuration = Undef THEN 1200 ELSE minDuration.v

MaxInEffect == IF maxDuration = Undef THEN 2500 ELSE maxDuration.v

PaddingInEffect == IF paddingMs = Undef THEN 150 ELSE paddingMs.v

DurationResults == {durationAudio, durationBrowserSafe}

\* C4: for every audio duration >= 0, padding >= 0 and bounds with
\* minDuration <= maxDuration, the scene duration d satisfies
\* minDuration <= d <= maxDuration.
C4_DurationWithinBounds ==
  \A r \in DurationResults :
    (r.called /\ MinInEffect <= MaxInEffect)
      => (MinInEffect <= r.value /\ r.value <= MaxInEffect)

\* C4 witness: one hour of audio has been clamped down to the maximum.
C4_Witness ==
  /\ durationAudio.called /\ durationBrowserSafe.called
  /\ audioDurationMs = 3600000
  /\ MinInEffect < MaxInEffect
  /\ durationAudio.value = MaxInEffect
  /\ durationBrowserSafe.value = MaxInEffect

\* clamp(x, lo, hi) for lo <= hi, case by case
ClampRef(x, lo, hi) == IF x < lo THEN lo ELSE IF x > hi THEN hi ELSE x

\* C5: calculateSceneDuration(audio, min, max, padding) is
\* clamp(audio + padding, min, max) with defaults 1200, 2500 and 150;
\* 900 ms of audio with padding 150 and bounds [1200, 2500] gives 1200; the
\* two copies of the function return the same value for every input.
C5_DurationIsClamp ==
  /\ \A r \in DurationResults :
       (r.called /\ MinInEffect <= MaxInEffect)
         => r.value = ClampRef(audioDurationMs + PaddingInEffect, MinInEffect, MaxInEffect)
  /\ \A r \in DurationResults :
       (r.called /\ audioDurationMs = 900 /\ PaddingInEffect = 150
          /\ MinInEffect = 1200 /\ MaxInEffect = 2500) => r.value = 1200
  /\ (durationAudio.called /\ durationBrowserSafe.called)
       => durationAudio.value = durationBrowserSafe.value

\* C5 witness: the documented example, by the defaults, in both copies.
C5_Witness ==
  /\ durationAudio.called /\ durationBrowserSafe.called
  /\ audioDurationMs = 900
  /\ minDuration = Undef /\ maxDuration = Undef /\ paddingMs = Undef
  /\ durationAudio.value = 1200

\* ------------------------------------------------ timeline and its segments

MaxScenes == 2

\* a scene's durationMs as timeline.json carries it: missing, 0, too short
\* for one frame (10 ms), or a duration whose frame count is a tie at 24 and
\* 30 fps (1250 ms: 30 and 37.5 frames)
SceneDurationValues == {Undef, Num(0), Num(10), Num(1250)}

\* main scenes come with pins and attacked squares or, under degraded
\* analysis, with none
SceneKinds == {[type |-> "main", overlays |-> TRUE], [type |-> "main", overlays |-> FALSE],
               [type |-> "alt", overlays |-> TRUE], [type |-> "reset", overlays |-> FALSE]}

\* scene identifiers are unique within a timeline: the i-th scene is "s<i>"
SceneId(i) == "s" \o ToString(i)

Scenes(n) ==
  {[i \in 1..n |-> [id |-> SceneId(i), type |-> ks[i].type, overlays |-> ks[i].overlays,
                    durationMs |-> ds[i]]] :
      ks \in [1..n -> SceneKinds], ds \in [1..n -> SceneDurationValues]}

Timelines == UNION {{[scenes |-> sc] : sc \in Scenes(n)} : n \in 0..MaxScenes}

SAFE_FALLBACK == [scenes |-> <<>>]

\* timeline?.scenes ?? []: the scenes of a timeline, none when the timeline
\* is null or carries no scenes field
ScenesOrEmpty(t) == IF "scenes" \in DOMAIN t THEN t.scenes ELSE <<>>

\* a JSON body of timeline.json: a timeline, null, or an object without scenes
TimelineBodies == Timelines \cup {Null, [meta |-> "White v Black"]}

SceneIds == {SceneId(i) : i \in 1..MaxScenes}

\* an entry of audio_durations.json in ms: none, 0, negative, shorter than a
\* scene of 1250 ms, longer than every scene
DurationEntries == {Undef, Num(0), Num(-50), Num(400), Num(5000)}

DurationMaps == [SceneIds -> DurationEntries]

\* {}: no scene has an entry
EmptyDurations == [id \in SceneIds |-> Undef]

\* What a fetch comes to: it throws, it answers with a status that is not
\* OK, it answers OK with a body that is not JSON, or OK with a JSON body.
FailedResponses == {[kind |-> "networkError", body |-> Null],
                    [kind |-> "notOk", body |-> Null],
                    [kind |-> "invalidJson", body |-> Null]}

TimelineResponses == FailedResponses \cup {[kind |-> "ok", body |-> t] : t \in TimelineBodies}

DurationsResponses == FailedResponses \cup {[kind |-> "ok", body |-> d] : d \in DurationMaps}

NoResponse == [kind |-> "pending", body |-> Null]

\* how the promise of an async function settles
Resolved(v) == [settled |-> "resolved", value |-> v]

Rejected == [settled |-> "rejected", value |-> Null]

\* loadTimelineJsonSafe with `await res.json()` outside the try: a body that
\* is not JSON rejects
loadTimelineJsonSafe_ParseOutsideTry(res) ==
  CASE res.kind = "networkError" -> Resolved(SAFE_FALLBACK)
    [] res.kind = "notOk" -> Resolved(SAFE_FALLBACK)
    [] res.kind = "invalidJson" -> Rejected
    [] OTHER -> Resolved(res.body)

\* loadTimelineJsonSafe: the whole body is inside try; the fetch throwing and
\* `await res.json()` throwing are caught, a status that is not OK returns early
loadTimelineJsonSafe(res) ==
  CASE res.kind = "networkError" -> Resolved(SAFE_FALLBACK)
    [] res.kind = "notOk" -> Resolved(SAFE_FALLBACK)
    [] res.kind = "invalidJson" -> Resolved(SAFE_FALLBACK)
    [] OTHER -> Resolved(res.body)

\* loadDurationsSafe: the same shape, with {} for every failure
loadDurationsSafe(res) ==
  CASE res.kind = "networkError" -> Resolved(EmptyDurations)
    [] res.kind = "notOk" -> Resolved(EmptyDurations)
    [] res.kind = "invalidJson" -> Resolved(EmptyDurations)
    [] OTHER -> Resolved(res.body)

\* Math.max(1, x) and x + y on values that may be NaN
JsMax1(x) == IF IsNum(x) THEN Num(Max(1, x.v)) ELSE NaN

JsAdd(x, y) == IF IsNum(x) /\ IsNum(y) THEN Num(x.v + y.v) ELSE NaN

\* Math.round((durationMs * fps) / 1000): undefined * fps is NaN, null * fps is 0
JsFrames(d, f) ==
  CASE d.k = "number" -> Num(RoundDiv(d.v * f, 1000))
    [] d.k = "null" -> Num(0)
    [] OTHER -> NaN

\* computeSegments: frames = Math.max(1, Math.round((s.durationMs * fps) / 1000))
computeFrames(s, f) == JsMax1(JsFrames(s.durationMs, f))

RECURSIVE computeSegmentsFrom(_, _, _)
\* scenes.map with the running cursor
computeSegmentsFrom(scenes, f, cursor) ==
  IF scenes = <<>> THEN <<>>
  ELSE LET frames == computeFrames(Head(scenes), f)
       IN <<[id |-> Head(scenes).id, from |-> cursor, frames |-> frames]>>
            \o computeSegmentsFrom(Tail(scenes), f, JsAdd(cursor, frames))

computeSegments(scenes, f) == computeSegmentsFrom(scenes, f, Num(0))

\* ChessVideo: frames = Math.max(1, Math.round(((s.durationMs ?? 0) * fps) / 1000))
chessVideoFrames(s, f) ==
  LET d == IF s.durationMs.k = "number" THEN s.durationMs.v ELSE 0
  IN Max(1, RoundDiv(d * f, 1000))

RECURSIVE chessVideoSegmentsFrom(_, _, _)
chessVideoSegmentsFrom(scenes, f, cursor) ==
  IF scenes = <<>> THEN <<>>
  ELSE LET frames == chessVideoFrames(Head(scenes), f)
       IN <<[scene |-> Head(scenes), from |-> cursor, durationInFrames |-> frames]>>
            \o chessVideoSegmentsFrom(Tail(scenes), f, cursor + frames)

\* the useMemo of ChessVideo over (timeline, fps)
chessVideoSegments(t, f) == chessVideoSegmentsFrom(ScenesOrEmpty(t), f, 0)

\* the measured duration counted as no duration at all: 0 ms, one frame
endAt_MissingAsZero(scene, durationInFrames, durs, f) ==
  IF scene.type # "reset"
  THEN Min(durationInFrames,
           Max(1, RoundDiv((IF IsNum(durs[scene.id]) THEN durs[scene.id].v ELSE 0) * f, 1000)))
  ELSE durationInFrames

\* the measured duration in frames without the clamp to the scene
trimmedFrames_NoClamp(durationInFrames, d, f) == RoundDiv(d * f, 1000)

\* Math.min(durationInFrames, Math.max(1, Math.round((d / 1000) * fps)))
trimmedFrames(durationInFrames, d, f) ==
  Min(durationInFrames, Max(1, RoundDiv(d * f, 1000)))

\* endAt: the measured duration in frames when the scene is not a reset and
\* durations[scene.id] is truthy (an entry that is neither missing nor 0),
\* else the whole scene
endAt(scene, durationInFrames, durs, f) ==
  IF scene.type # "reset" /\ Truthy(durs[scene.id])
  THEN trimmedFrames(durationInFrames, durs[scene.id].v, f)
  ELSE durationInFrames

\* a dispatch on the scene's shape instead of its type
sceneComponents_ByShape(scene) ==
  IF scene.overlays THEN {"SceneMainMove"}
  ELSE IF scene.type = "alt" THEN {"SceneAltPreview"} ELSE {"SceneReset"}

\* the components rendered inside the scene's Sequence
sceneComponents(scene) ==
  (IF scene.type = "main" THEN {"SceneMainMove"} ELSE {})
    \cup (IF scene.type = "alt" THEN {"SceneAltPreview"} ELSE {})
    \cup (IF scene.type = "reset" THEN {"SceneReset"} ELSE {})

\* {scene.type !== 'reset' && <Sequence ..><Audio ../></Sequence>}
hasAudio(scene) == scene.type # "reset"

\* the fragment of one segment: the scene's Sequence and the audio Sequence
RenderFragment(seg, durs, f) ==
  [key |-> seg.scene.id,
   type |-> seg.scene.type,
   from |-> seg.from,
   durationInFrames |-> seg.durationInFrames,
   components |-> sceneComponents(seg.scene),
   audio |-> hasAudio(seg.scene),
   audioFrom |-> seg.from,
   endAt |-> endAt(seg.scene, seg.durationInFrames, durs, f)]

\* what ChessVideo returns: the fragments of the segments unless noData,
\* the 'No timeline loaded' overlay when noData
ChessVideoRender(t, segs, durs, f) ==
  LET noData == t = Null \/ Len(ScenesOrEmpty(t)) = 0
  IN  [overlay |-> noData,
       fragments |-> IF noData THEN <<>>
                     ELSE [i \in 1..Len(segs) |-> RenderFragment(segs[i], durs, f)]]

NotComputed == [called |-> FALSE, segs |-> <<>>]

VideoInit ==
  /\ videoFps \in FrameRates
  /\ timeline = SAFE_FALLBACK
  /\ timelineState = "loading"
  /\ timelineResponse = NoResponse
  /\ durations = EmptyDurations
  /\ durationsState = "loading"
  /\ segments = chessVideoSegments(SAFE_FALLBACK, videoFps)
  /\ rendered = ChessVideoRender(SAFE_FALLBACK, segments, EmptyDurations, videoFps)
  /\ computed = NotComputed

\* loadTimelineJsonSafe().then(setTimeline): when the promise resolves the
\* component re-renders and useMemo recomputes the segments; a rejection
\* would go unhandled and leave the state as it is.  The component stays
\* mounted, so `cancelled` is false.
SetTimeline ==
  /\ timelineState = "loading"
  /\ \E res \in TimelineResponses :
       LET p == loadTimelineJsonSafe(res)
       IN  /\ timelineResponse' = res
           /\ IF p.settled = "resolved"
              THEN /\ timeline' = p.value
                   /\ timelineState' = "loaded"
              ELSE /\ timeline' = timeline
                   /\ timelineState' = "rejected"
  /\ segments' = chessVideoSegments(timeline', videoFps)
  /\ rendered' = ChessVideoRender(timeline', segments', durations, videoFps)
  /\ UNCHANGED <<videoFps, computed, durations, durationsState>>
  /\ UNCHANGED notVideo

\* loadDurationsSafe().then(setDurations): the component re-renders
SetDurations ==
  /\ durationsState = "loading"
  /\ \E res \in DurationsResponses :
       LET p == loadDurationsSafe(res)
       IN  IF p.settled = "resolved"
           THEN /\ durations' = p.value
                /\ durationsState' = "loaded"
           ELSE /\ durations' = durations
                /\ durationsState' = "rejected"
  /\ rendered' = ChessVideoRender(timeline, segments, durations', videoFps)
  /\ UNCHANGED <<videoFps, timeline, timelineState, timelineResponse, segments, computed>>
  /\ UNCHANGED notVideo

\* computeSegments(timeline.scenes, fps) on a loaded timeline that has scenes
CallComputeSegments ==
  /\ timelineState = "loaded"
  /\ "scenes" \in DOMAIN timeline
  /\ ~computed.called
  /\ computed' = [called |-> TRUE, segs |-> computeSegments(timeline.scenes, videoFps)]
  /\ UNCHANGED <<videoFps, timeline, timelineState, timelineResponse, segments,
                 durations, durationsState, rendered>>
  /\ UNCHANGED notVideo

VideoNext == SetTimeline \/ SetDurations \/ CallComputeSegments

\* ------------------------------------------------------ segments: the claims

RECURSIVE SumOfLengths(_)
\* the sum of the lengths of ChessVideo's segments
SumOfLengths(segs) ==
  IF segs = <<>> THEN 0 ELSE Head(segs).durationInFrames + SumOfLengths(Tail(segs))

\* ChessVideo's segments: the first starts at 0, each other one where the one
\* before it ends, and the last ends at the sum of all lengths
ChessVideoContiguous ==
  segments # <<>> =>
    /\ segments[1].from = 0
    /\ \A i \in 2..Len(segments) :
         segments[i].from = segments[i-1].from + segments[i-1].durationInFrames
    /\ segments[Len(segments)].from + segments[Len(segments)].durationInFrames
         = SumOfLengths(segments)

\* the same of computeSegments' result, whose numbers must then be numbers
ComputedContiguous ==
  (computed.called /\ computed.segs # <<>>) =>
    /\ computed.segs[1].from = Num(0)
    /\ \A i \in 1..Len(computed.segs) :
         IsNum(computed.segs[i].from) /\ IsNum(computed.segs[i].frames)
    /\ \A i \in 2..Len(computed.segs) :
         computed.segs[i].from.v = computed.segs[i-1].from.v + computed.segs[i-1].frames.v

\* C6: the segments laid out for a timeline have no overlap and no gap, by
\* computeSegments and in ChessVideo: the first starts at frame 0, every
\* other one at (start + length) of the one before it.
C6_SegmentsContiguous == ChessVideoContiguous /\ ComputedContiguous

ChessVideoAtLeastOneFrame ==
  \A i \in 1..Len(segments) : segments[i].durationInFrames >= 1

ComputedAtLeastOneFrame ==
  computed.called =>
    \A i \in 1..Len(computed.segs) :
      IsNum(computed.segs[i].frames) /\ computed.segs[i].frames.v >= 1

\* C7: every scene, also one whose durationMs is 0, missing or rounds to 0
\* frames, gets a segment of length >= 1 from computeSegments and in ChessVideo.
C7_AtLeastOneFrame == ChessVideoAtLeastOneFrame /\ ComputedAtLeastOneFrame

ChessVideoAllScenesInOrder ==
  /\ Len(segments) = Len(ScenesOrEmpty(timeline))
  /\ \A i \in 1..Len(segments) : segments[i].scene = timeline.scenes[i]
  /\ \A i \in 2..Len(segments) : segments[i-1].from < segments[i].from

ComputedAllScenesInOrder ==
  computed.called =>
    /\ Len(computed.segs) = Len(timeline.scenes)
    /\ \A i \in 1..Len(computed.segs) : computed.segs[i].id = timeline.scenes[i].id
    /\ \A i \in 2..Len(computed.segs) :
         /\ IsNum(computed.segs[i-1].from) /\ IsNum(computed.segs[i].from)
         /\ computed.segs[i-1].from.v < computed.segs[i].from.v

\* C8: for a timeline of n scenes n segments are produced, the i-th segment
\* is the i-th scene, and the start frames increase strictly with the index,
\* main scenes without pins and attacked squares included.
C8_AllScenesInOrder == ChessVideoAllScenesInOrder /\ ComputedAllScenesInOrder

\* ------------------------------------------------- ChessVideo: the claims

\* the rendered fragments, by index
Fragments == {rendered.fragments[i] : i \in 1..Len(rendered.fragments)}

\* C12: a non-reset scene whose id has no entry in durations is treated as of
\* unknown duration, not of zero duration: its audio is attached and runs
\* for the whole scene (endAt = durationInFrames, at least one frame).
C12_MissingDurationWholeScene ==
  \A fr \in Fragments :
    (fr.type # "reset" /\ durations[fr.key] = Undef) =>
      /\ fr.audio
      /\ fr.endAt = fr.durationInFrames
      /\ fr.endAt >= 1

\* a durations file was loaded that measures another scene but not this one,
\* a non-reset scene of more than one frame
C12_Witness ==
  /\ durationsState = "loaded"
  /\ \E id \in SceneIds : Truthy(durations[id])
  /\ \E fr \in Fragments :
       /\ fr.type # "reset"
       /\ durations[fr.key] = Undef
       /\ fr.durationInFrames > 1
       /\ fr.endAt = fr.durationInFrames

\* the component the Scene union names for a type
ComponentFor(type) ==
  CASE type = "main" -> "SceneMainMove"
    [] type = "alt" -> "SceneAltPreview"
    [] type = "reset" -> "SceneReset"

\* C13: every scene renders exactly one of SceneMainMove, SceneAltPreview and
\* SceneReset, the one its type names, whatever else the scene carries; and
\* the audio track is attached exactly to the scenes whose type is not 'reset'.
C13_DispatchOnType ==
  /\ \A i \in 1..Len(rendered.fragments) :
       LET fr == rendered.fragments[i]
           scene == timeline.scenes[i]
       IN  /\ Cardinality(fr.components) = 1
           /\ fr.components = {ComponentFor(scene.type)}
           /\ fr.audio <=> scene.type # "reset"
  /\ \A i, j \in 1..Len(rendered.fragments) :
       timeline.scenes[i].type = timeline.scenes[j].type =>
         /\ rendered.fragments[i].components = rendered.fragments[j].components
         /\ rendered.fragments[i].audio = rendered.fragments[j].audio

\* a main scene without overlays and a reset scene, both rendered
C13_Witness ==
  /\ \E i \in 1..Len(rendered.fragments) :
       /\ timeline.scenes[i].type = "main"
       /\ ~timeline.scenes[i].overlays
       /\ rendered.fragments[i].components = {"SceneMainMove"}
       /\ rendered.fragments[i].audio
  /\ \E i \in 1..Len(rendered.fragments) :
       /\ timeline.scenes[i].type = "reset"
       /\ rendered.fragments[i].components = {"SceneReset"}
       /\ ~rendered.fragments[i].audio

\* C17: the audio of a non-reset scene never plays past its scene: whatever
\* the measured duration (0, negative, longer than the scene),
\* 1 <= endAt <= durationInFrames, and the audio starts at the scene's frame.
C17_AudioWithinScene ==
  \A fr \in Fragments :
    fr.audio =>
      /\ 1 <= fr.endAt
      /\ fr.endAt <= fr.durationInFrames
      /\ fr.audioFrom = fr.from

\* a measured duration longer than its scene and a negative one, the latter
\* on a scene that does not start at frame 0
C17_Witness ==
  /\ \E fr \in Fragments :
       /\ fr.audio
       /\ durations[fr.key] = Num(5000)
       /\ fr.durationInFrames > 1
       /\ fr.endAt = fr.durationInFrames
  /\ \E fr \in Fragments :
       /\ fr.audio
       /\ durations[fr.key] = Num(-50)
       /\ fr.from > 0
       /\ fr.durationInFrames > 1
       /\ fr.endAt = 1

\* the measured duration is used when it fits: 400 ms is 10 or 12 frames
TrimmedToMeasured ==
  \A fr \in Fragments :
    (fr.audio /\ durations[fr.key] = Num(400) /\ fr.durationInFrames >= 12) =>
      fr.endAt = RoundDiv(400 * videoFps, 1000)

\* C19: the load of timeline.json never rejects; when the file is missing,
\* the fetch fails or the body is not JSON the timeline is the empty fallback
\* and the component shows the 'No timeline loaded' overlay and no scene and
\* no audio; scenes are rendered only for a loaded timeline of >= 1 scene.
C19_FallbackOnLoadFailure ==
  /\ timelineState # "rejected"
  /\ timelineResponse \in FailedResponses =>
       /\ timelineState = "loaded"
       /\ timeline = SAFE_FALLBACK
       /\ rendered.overlay
       /\ rendered.fragments = <<>>
  /\ rendered.fragments # <<>> =>
       /\ timelineState = "loaded"
       /\ Len(ScenesOrEmpty(timeline)) >= 1
       /\ ~rendered.overlay
  /\ rendered.fragments = <<>> => rendered.overlay

\* the body of timeline.json was not JSON, and measured durations are loaded
C19_Witness ==
  /\ timelineResponse.kind = "invalidJson"
  /\ timelineState = "loaded"
  /\ durationsState = "loaded"
  /\ \E id \in SceneIds : Truthy(durations[id])
  /\ rendered.overlay

\* ------------------------------------------------- the store (schema.sql)

MaxGames == 2

MaxAnalysisRows == 3

MaxPly == 2

MovesHashes == {"h1", "h2"}

StoreInit ==
  /\ games = {}
  /\ gamesSeq = 0
  /\ analysis_cache = {}
  /\ analysisSeq = 0

\* INSERT INTO games: id from the BIGSERIAL sequence; moves_hash TEXT UNIQUE
\* rejects a hash some row already holds
InsertGame ==
  /\ gamesSeq < MaxGames
  /\ \E h \in MovesHashes :
       /\ \A g \in games : g.moves_hash # h
       /\ games' = games \cup {[id |-> gamesSeq + 1, moves_hash |-> h]}
  /\ gamesSeq' = gamesSeq + 1
  /\ UNCHANGED <<analysis_cache, analysisSeq>>
  /\ UNCHANGED notStore

\* INSERT INTO analysis_cache (game_id, ply, ...): id from the BIGSERIAL
\* sequence (the primary key), game_id must reference a row of games; the
\* index idx_analysis_cache_game_ply on (game_id, ply) is a plain index and
\* rejects nothing
InsertAnalysis ==
  /\ analysisSeq < MaxAnalysisRows
  /\ \E g \in games, p \in 1..MaxPly :
       analysis_cache' = analysis_cache \cup {[id |-> analysisSeq + 1, game_id |-> g.id, ply |-> p]}
  /\ analysisSeq' = analysisSeq + 1
  /\ UNCHANGED <<games, gamesSeq>>
  /\ UNCHANGED notStore

StoreNext == InsertGame \/ InsertAnalysis

\* C9: after any sequence of inserts into analysis_cache, two for the same
\* (game_id, ply) included, no two rows share the same (game_id, ply).
C9_UniqueGamePly ==
  \A r1, r2 \in analysis_cache :
    (r1.game_id = r2.game_id /\ r1.ply = r2.ply) => r1 = r2

\* what the schema does enforce: the primary key, the foreign key, and the
\* uniqueness of games.moves_hash
StoreConstraints ==
  /\ \A r1, r2 \in analysis_cache : r1.id = r2.id => r1 = r2
  /\ \A r \in analysis_cache : \E g \in games : g.id = r.game_id
  /\ \A g1, g2 \in games : g1.moves_hash = g2.moves_hash => g1 = g2

\* ------------------------------------ SceneAltPreview: the evaluation label

\* SceneAlt.cp?: number (centipawns)
CpValues == {Undef, Num(0), Num(35), Num(-120), Num(250), Num(-5)}

\* SceneAlt.mate?: number | null
MateValues == {Undef, Null, Num(0), Num(1), Num(3), Num(-2)}

\* What the label shows under scene.label: a centipawn line, a 'Mate in N'
\* line, and the bare "0" text nodes React renders for `{0 && <div/>}`.
NoPreview == [called |-> FALSE, cpLine |-> FALSE, cpSign |-> "", mateLine |-> FALSE, zeros |-> 0]

\* first definition: {scene.cp && <div>..cp</div>} {scene.mate && <div>Mate in ..</div>}
sceneAltPreviewFirst(c, m) ==
  [called |-> TRUE,
   cpLine |-> Truthy(c),
   cpSign |-> IF Truthy(c) /\ c.v > 0 THEN "+" ELSE "",
   mateLine |-> Truthy(m),
   zeros |-> (IF c = Num(0) THEN 1 ELSE 0) + (IF m = Num(0) THEN 1 ELSE 0)]

\* second definition: cpText = typeof scene.cp === 'number' ? ... : null;
\* {cpText && <div/>} {!cpText && scene.mate && <div>Mate in ..</div>}
sceneAltPreviewSecond(c, m) ==
  LET cpText == IsNum(c)
  IN [called |-> TRUE,
      cpLine |-> cpText,
      cpSign |-> IF cpText /\ c.v >= 0 THEN "+" ELSE "",
      mateLine |-> ~cpText /\ Truthy(m),
      zeros |-> IF ~cpText /\ m = Num(0) THEN 1 ELSE 0]

PreviewInit ==
  /\ cp \in CpValues
  /\ mate \in MateValues
  /\ previewFirst = NoPreview
  /\ previewSecond = NoPreview

RenderPreviewFirst ==
  /\ ~previewFirst.called
  /\ previewFirst' = sceneAltPreviewFirst(cp, mate)
  /\ UNCHANGED <<cp, mate, previewSecond>>
  /\ UNCHANGED notPreview

RenderPreviewSecond ==
  /\ ~previewSecond.called
  /\ previewSecond' = sceneAltPreviewSecond(cp, mate)
  /\ UNCHANGED <<cp, mate, previewFirst>>
  /\ UNCHANGED notPreview

PreviewNext == RenderPreviewFirst \/ RenderPreviewSecond

PreviewExclusive(r) ==
  r.called => /\ ~(r.cpLine /\ r.mateLine)
              /\ (cp = Num(0) => r.cpLine)

\* C10: for every SceneAlt value the preview shows at most one of the
\* centipawn figure and the 'Mate in N' line, never both, and a centipawn
\* value of 0 is shown as a centipawn evaluation.
C10_CpMateExclusive == PreviewExclusive(previewFirst) /\ PreviewExclusive(previewSecond)

\* the second definition alone does what the claim says
PreviewSecondExclusive == PreviewExclusive(previewSecond)

\* ------------------------------------------------------ EvalBar (part_004)

\* the defaults of the delay and duration props, in frames
DefaultDelay == 0

DefaultDuration == 30

\* last frame the bar is rendered at
MaxFrame == 45

\* evalBarTarget in hundredths: inside [-1, +1], at its ends, and beyond them
EvalTargets == {-250, -100, -60, -50, -30, 0, 30, 50, 60, 100, 250}

EvalDelays == {Undef, Num(10)}

EvalDurations == {Undef, Num(4)}

Abs(n) == IF n >= 0 THEN n ELSE -n

Cube(n) == n * n * n

\* interpolate(frame, [delay, delay + duration], [0, target]) with both
\* extrapolations clamped and easing Easing.out(Easing.cubic): the input is
\* clamped to the range, t = (input - delay) / duration is eased to
\* 1 - (1 - t)^3, and the result is target * eased.  With n = input - delay
\* the eased value is (duration^3 - (duration - n)^3) / duration^3; the
\* result is the fraction num / den of a target given in hundredths.
interpolate(frame, delay, duration, target) ==
  LET n == Min(Max(frame - delay, 0), duration)
  IN  [num |-> target * (Cube(duration) - Cube(duration - n)),
       den |-> 100 * Cube(duration)]

\* The evaluation bar of EvalBar at a frame: percentage = |animatedValue| * 100,
\* isPositive = animatedValue >= 0, width = percentage %,
\* left = 50 % when positive, else (50 - percentage) %.  left and width are
\* percentages of the bar's extent, as numerators over den.
EvalBar(target, frame, delayProp, durationProp) ==
  LET delay == OrDefault(delayProp, DefaultDelay)
      duration == OrDefault(durationProp, DefaultDuration)
      animatedValue == interpolate(frame, delay, duration, target)
      den == animatedValue.den \div 100
      percentage == Abs(animatedValue.num)
      isPositive == animatedValue.num >= 0
  IN  [width |-> percentage,
       left |-> IF isPositive THEN 50 * den ELSE 50 * den - percentage,
       den |-> den]

NoBar == [width |-> 0, left |-> 0, den |-> 0]

EvalBarInit ==
  /\ evalTarget \in EvalTargets
  /\ evalDelay \in EvalDelays
  /\ evalDuration \in EvalDurations
  /\ evalFrame = 0
  /\ evalBar = EvalBar(evalTarget, 0, evalDelay, evalDuration)

\* Remotion renders the component again at the next frame
RenderNextFrame ==
  /\ evalFrame < MaxFrame
  /\ evalFrame' = evalFrame + 1
  /\ evalBar' = EvalBar(evalTarget, evalFrame + 1, evalDelay, evalDuration)
  /\ UNCHANGED <<evalTarget, evalDelay, evalDuration>>
  /\ UNCHANGED notEvalBar

EvalBarNext == RenderNextFrame

\* C11: at every frame and for every target, inside or outside [-1, +1], the
\* drawn bar stays inside the bar's own extent: its left edge is at or after
\* 0 % and its right edge (left + width) at or before 100 %.
C11_BarInsideExtent ==
  /\ evalBar.left >= 0
  /\ evalBar.left + evalBar.width <= 100 * evalBar.den

\* the bar of a target inside [-1, +1] alone: it leaves the extent too
C11_InRangeBarInsideExtent ==
  (evalTarget >= -100 /\ evalTarget <= 100) => C11_BarInsideExtent

\* what the code does keep: a bar of at most half the scale stays inside
EvalBarHalfScaleInside ==
  (evalTarget >= -50 /\ evalTarget <= 50) => C11_BarInsideExtent

\* ------------------------------------------- loaders (part_005, Video.tsx)

\* loadTimeline: nothing is caught.  The fetch throwing, the thrown
\* Error('timeline.json <status>') and res.json() rejecting all reject.
loadTimeline(res) ==
  CASE res.kind = "networkError" -> Rejected
    [] res.kind = "notOk" -> Rejected
    [] res.kind = "invalidJson" -> Rejected
    [] OTHER -> Resolved(res.body)

\* loadDurations: `await fetch` is inside the try, so the fetch throwing is
\* caught; a status that is not OK returns {}; `return res.json()` hands the
\* promise back without awaiting it, so when the body is not JSON the
\* rejection happens outside the try and the catch never runs.
loadDurations(res) ==
  CASE res.kind = "networkError" -> Resolved(EmptyDurations)
    [] res.kind = "notOk" -> Resolved(EmptyDurations)
    [] res.kind = "invalidJson" -> Rejected
    [] OTHER -> Resolved(res.body)

NoLoaderCall == [fn |-> "none", response |-> NoResponse, result |-> Rejected]

LoadersInit == loaderCall = NoLoaderCall

CallLoadTimeline ==
  /\ \E res \in TimelineResponses :
       loaderCall' = [fn |-> "loadTimeline", response |-> res, result |-> loadTimeline(res)]
  /\ UNCHANGED notLoaders

CallLoadDurations ==
  /\ \E res \in DurationsResponses :
       loaderCall' = [fn |-> "loadDurations", response |-> res, result |-> loadDurations(res)]
  /\ UNCHANGED notLoaders

CallLoadDurationsSafe ==
  /\ \E res \in DurationsResponses :
       loaderCall' = [fn |-> "loadDurationsSafe", response |-> res,
                      result |-> loadDurationsSafe(res)]
  /\ UNCHANGED notLoaders

LoadersNext == CallLoadTimeline \/ CallLoadDurations \/ CallLoadDurationsSafe

\* loadDurationsSafe of Video.tsx awaits res.json() inside the try: {} on
\* every failure
LoadDurationsSafeNeverRejects ==
  (loaderCall.fn = "loadDurationsSafe" /\ loaderCall.response \in FailedResponses) =>
    loaderCall.result = Resolved(EmptyDurations)

\* loadDurations: {} when the fetch throws or the status is not OK
LoadDurationsFetchFailures ==
  (loaderCall.fn = "loadDurations" /\ loaderCall.response.kind \in {"networkError", "notOk"}) =>
    loaderCall.result = Resolved(EmptyDurations)

\* loadTimeline rejects when the response is not OK
LoadTimelineRejectsNotOk ==
  (loaderCall.fn = "loadTimeline" /\ loaderCall.response.kind = "notOk") =>
    loaderCall.result.settled = "rejected"

\* C20: on every failure (status not OK, network error, body that is not
\* JSON) loadDurations resolves to {} and never rejects, whereas loadTimeline
\* rejects when the response is not OK.
C20_DurationsOptional ==
  /\ (loaderCall.fn \in {"loadDurations", "loadDurationsSafe"}
        /\ loaderCall.response \in FailedResponses) =>
       loaderCall.result = Resolved(EmptyDurations)
  /\ loaderCall.fn \in {"loadDurations", "loadDurationsSafe"} =>
       loaderCall.result.settled = "resolved"
  /\ LoadTimelineRejectsNotOk

\* ------------------------------------------- ttsBatch (elevenlabs_client)

\* lines of one ttsBatch call, and ttsBatch calls sharing one output directory
MaxLines == 2

MaxBatches == 2

Texts == {"Knight f3", "castles kingside"}

\* TTSOptions; a field left out reads "undefined" in the cache key
TtsOptionsSet ==
  {[voiceId |-> "v1", stability |-> "undefined", rate |-> "undefined", clarity |-> "undefined"],
   [voiceId |-> "v1", stability |-> "0.5", rate |-> "undefined", clarity |-> "undefined"]}

\* line ids are the scene ids, unique within a call: the i-th line is "s<i>"
LineSeqs ==
  UNION {{[i \in 1..n |-> [id |-> SceneId(i), text |-> ts[i]]] : ts \in [1..n -> Texts]} :
           n \in 0..MaxLines}

\* getCacheKey: the md5 of `${text}:${voiceId}:${stability}:${rate}:${clarity}`,
\* carried as the hashed string itself (md5 taken as free of collisions)
getCacheKey(text, options) ==
  text \o ":" \o options.voiceId \o ":" \o options.stability \o ":" \o options.rate
       \o ":" \o options.clarity

\* how the I/O of one line goes: fs.copyFile, synthesizeText (it throws before
\* the request when the API key is not set, or on a response that is not OK),
\* and the two fs.writeFile calls
IoOutcomes ==
  [copyOk : BOOLEAN, synth : {"ok", "apiError", "noKey"},
   writeCacheOk : BOOLEAN, writeOutputOk : BOOLEAN]

\* what one iteration did: the cache files after it, whether outputPath was
\* written, whether results[line.id] was set, whether the API was called,
\* whether the output came from the cache, whether an error reached the
\* outer catch, and whether the call rejects
LineOutcome(cache, written, entry, apiCall, fromCache, threw, rejects) ==
  [cache |-> cache, written |-> written, entry |-> entry, apiCall |-> apiCall,
   fromCache |-> fromCache, threw |-> threw, rejects |-> rejects]

\* the loop body without the outer try: an error of a line rejects the call
processLine_NoOuterTry(line, options, cache, io) ==
  LET key == getCacheKey(line.text, options)
  IN  IF key \in cache /\ io.copyOk
      THEN LineOutcome(cache, TRUE, TRUE, FALSE, TRUE, FALSE, FALSE)
      ELSE IF io.synth = "noKey"
      THEN LineOutcome(cache, FALSE, FALSE, FALSE, FALSE, TRUE, TRUE)
      ELSE IF io.synth = "apiError"
      THEN LineOutcome(cache, FALSE, FALSE, TRUE, FALSE, TRUE, TRUE)
      ELSE IF ~io.writeCacheOk
      THEN LineOutcome(cache, FALSE, FALSE, TRUE, FALSE, TRUE, TRUE)
      ELSE IF ~io.writeOutputOk
      THEN LineOutcome(cache \cup {key}, FALSE, FALSE, TRUE, FALSE, TRUE, TRUE)
      ELSE LineOutcome(cache \cup {key}, TRUE, TRUE, TRUE, FALSE, FALSE, FALSE)

\* The body of the for loop for one line.  Inner try: fs.access(cachePath)
\* succeeds when the cache file exists, then fs.copyFile; both succeeding is
\* the cache hit (results entry, continue); either failing lands in the inner
\* catch and falls through to synthesizeText.  Then writeFile(cachePath),
\* writeFile(outputPath), results entry.  Any error there is caught by the
\* outer catch and the loop goes on.
processLine(line, options, cache, io) ==
  LET key == getCacheKey(line.text, options)
  IN  IF key \in cache /\ io.copyOk
      THEN LineOutcome(cache, TRUE, TRUE, FALSE, TRUE, FALSE, FALSE)
      ELSE IF io.synth = "noKey"
      THEN LineOutcome(cache, FALSE, FALSE, FALSE, FALSE, TRUE, FALSE)
      ELSE IF io.synth = "apiError"
      THEN LineOutcome(cache, FALSE, FALSE, TRUE, FALSE, TRUE, FALSE)
      ELSE IF ~io.writeCacheOk
      THEN LineOutcome(cache, FALSE, FALSE, TRUE, FALSE, TRUE, FALSE)
      ELSE IF ~io.writeOutputOk
      THEN LineOutcome(cache \cup {key}, FALSE, FALSE, TRUE, FALSE, TRUE, FALSE)
      ELSE LineOutcome(cache \cup {key}, TRUE, TRUE, TRUE, FALSE, FALSE, FALSE)

NoLine == [processed |-> FALSE, id |-> "", cachedBefore |-> FALSE, apiCall |-> FALSE,
           written |-> FALSE, fromCache |-> FALSE, threw |-> FALSE]

NoOptions == [voiceId |-> "", stability |-> "undefined", rate |-> "undefined",
              clarity |-> "undefined"]

TtsInit ==
  /\ ttsState = "idle"
  /\ ttsCalls = 0
  /\ ttsLines = <<>>
  /\ ttsOptions = NoOptions
  /\ ttsIndex = 1
  /\ ttsProcessed = <<>>
  /\ ttsResults = {}
  /\ ttsWritten = {}
  /\ cacheFiles = {}
  /\ ttsLast = NoLine

\* ttsBatch(lines, options, outDir) up to the loop: results = {} and the two
\* fs.mkdir calls, which are outside every try
StartBatch ==
  /\ ttsState \in {"idle", "returned", "rejected"}
  /\ ttsCalls < MaxBatches
  /\ ttsCalls' = ttsCalls + 1
  /\ \E lines \in LineSeqs, options \in TtsOptionsSet, mkdirOk \in BOOLEAN :
       /\ ttsLines' = lines
       /\ ttsOptions' = options
       /\ ttsState' = IF mkdirOk THEN "running" ELSE "rejected"
  /\ ttsIndex' = 1
  /\ ttsProcessed' = <<>>
  /\ ttsResults' = {}
  /\ ttsWritten' = {}
  /\ ttsLast' = NoLine
  /\ UNCHANGED cacheFiles
  /\ UNCHANGED notTts

\* one iteration of the for loop
ProcessLine ==
  /\ ttsState = "running"
  /\ ttsIndex <= Len(ttsLines)
  /\ \E io \in IoOutcomes :
       LET line == ttsLines[ttsIndex]
           r == processLine(line, ttsOptions, cacheFiles, io)
       IN  /\ cacheFiles' = r.cache
           /\ ttsResults' = IF r.entry THEN ttsResults \cup {line.id} ELSE ttsResults
           /\ ttsWritten' = IF r.written THEN ttsWritten \cup {line.id} ELSE ttsWritten
           /\ ttsLast' = [processed |-> TRUE, id |-> line.id,
                          cachedBefore |-> getCacheKey(line.text, ttsOptions) \in cacheFiles,
                          apiCall |-> r.apiCall, written |-> r.written,
                          fromCache |-> r.fromCache, threw |-> r.threw]
           /\ ttsProcessed' = Append(ttsProcessed, line.id)
           /\ ttsState' = IF r.rejects THEN "rejected" ELSE "running"
  /\ ttsIndex' = ttsIndex + 1
  /\ UNCHANGED <<ttsCalls, ttsLines, ttsOptions>>
  /\ UNCHANGED notTts

\* return results
ReturnResults ==
  /\ ttsState = "running"
  /\ ttsIndex > Len(ttsLines)
  /\ ttsState' = "returned"
  /\ UNCHANGED <<ttsCalls, ttsLines, ttsOptions, ttsIndex, ttsProcessed, ttsResults,
                 ttsWritten, cacheFiles, ttsLast>>
  /\ UNCHANGED notTts

TtsNext == StartBatch \/ ProcessLine \/ ReturnResults

\* C15: once a line's text has been synthesized with the call's options and
\* its cache file written, a later line with the same text and options makes
\* no call to the synthesis API, and its output file comes from the cache.
C15_NoResynthesis ==
  (ttsLast.processed /\ ttsLast.cachedBefore) =>
    /\ ~ttsLast.apiCall
    /\ ttsLast.written => ttsLast.fromCache

\* what the cache does give: with the copy succeeding no API call is made
CacheHitWhenCopied ==
  (ttsLast.processed /\ ttsLast.cachedBefore /\ ttsLast.fromCache) => ~ttsLast.apiCall

\* the ids of the first n lines of the call
LineIds(n) == [i \in 1..n |-> ttsLines[i].id]

\* C18: a failure of synthesis or of a file write on one line is isolated:
\* the call does not reject because of it, the lines are processed in input
\* order and all of them by the time the call returns, and the returned map
\* has an entry for an id exactly when that line's output file was written,
\* so none for a failed line.
C18_FailureIsolated ==
  /\ ttsState = "rejected" => ttsProcessed = <<>>
  /\ ttsProcessed = LineIds(ttsIndex - 1)
  /\ ttsState = "returned" => ttsProcessed = LineIds(Len(ttsLines))
  /\ ttsResults = ttsWritten
  /\ (ttsLast.processed /\ ttsLast.threw) => ttsLast.id \notin ttsResults

\* the first of two lines failed, the second was written, the call returned
C18_Witness ==
  /\ ttsState = "returned"
  /\ Len(ttsLines) = 2
  /\ ttsResults = {SceneId(2)}
  /\ ttsWritten = {SceneId(2)}
  /\ ttsLast.processed /\ ttsLast.id = SceneId(2) /\ ~ttsLast.threw

\* ------------------------------------------- text_normalizer (part_002)

\* the character of s at index i, "" outside s
CharAt(s, i) == IF i >= 1 /\ i <= Len(s) THEN SubSeq(s, i, i) ELSE ""

UpperCase == <<"A", "B", "C", "D", "E", "F", "G", "H", "I", "J", "K", "L", "M",
               "N", "O", "P", "Q", "R", "S", "T", "U", "V", "W", "X", "Y", "Z">>

LowerCase == <<"a", "b", "c", "d", "e", "f", "g", "h", "i", "j", "k", "l", "m",
               "n", "o", "p", "q", "r", "s", "t", "u", "v", "w", "x", "y", "z">>

Digits == {"0", "1", "2", "3", "4", "5", "6", "7", "8", "9"}

\* \w
WordChars == {UpperCase[i] : i \in 1..26} \cup {LowerCase[i] : i \in 1..26}
               \cup Digits \cup {"_"}

\* \s, as far as the inputs go
Whitespace == {" "}

\* [a-h] and [1-8]
Files == {"a", "b", "c", "d", "e", "f", "g", "h"}

Ranks == {"1", "2", "3", "4", "5", "6", "7", "8"}

fileNames == [a |-> "ay", b |-> "bee", c |-> "see", d |-> "dee",
              e |-> "ee", f |-> "eff", g |-> "gee", h |-> "aitch"]

pieceNames == [K |-> "King", Q |-> "Queen", R |-> "Rook", B |-> "Bishop", N |-> "Knight"]

\* \b between index i - 1 and index i
Boundary(s, i) == (CharAt(s, i - 1) \in WordChars) # (CharAt(s, i) \in WordChars)

LowerOf(c) ==
  IF \E i \in 1..26 : UpperCase[i] = c
  THEN LowerCase[CHOOSE i \in 1..26 : UpperCase[i] = c]
  ELSE c

RECURSIVE ToLower(_)
ToLower(s) == IF s = "" THEN "" ELSE LowerOf(CharAt(s, 1)) \o ToLower(SubSeq(s, 2, Len(s)))

\* the literal w stands in s at index i (under the i flag: up to case)
MatchAt(s, i, w, ci) ==
  /\ i + Len(w) - 1 <= Len(s)
  /\ IF ci THEN ToLower(SubSeq(s, i, i + Len(w) - 1)) = ToLower(w)
     ELSE SubSeq(s, i, i + Len(w) - 1) = w

RECURSIVE ReplaceFrom(_, _, _, _, _, _)
\* s.replace(/w/g, r), /\bw\b/g when bounded, with the i flag when ci: the
\* scan goes left to right over s and resumes after each match
ReplaceFrom(s, i, w, r, bounded, ci) ==
  IF i > Len(s) THEN ""
  ELSE IF /\ MatchAt(s, i, w, ci)
          /\ bounded => (Boundary(s, i) /\ Boundary(s, i + Len(w)))
       THEN r \o ReplaceFrom(s, i + Len(w), w, r, bounded, ci)
       ELSE CharAt(s, i) \o ReplaceFrom(s, i + 1, w, r, bounded, ci)

ReplaceLiteral(s, w, r) == ReplaceFrom(s, 1, w, r, FALSE, FALSE)

ReplaceWord(s, w, r) == ReplaceFrom(s, 1, w, r, TRUE, FALSE)

ReplaceWordCI(s, w, r) == ReplaceFrom(s, 1, w, r, TRUE, TRUE)

RECURSIVE RemoveCharsFrom(_, _, _)
\* s.replace(/[..]/g, '')
RemoveCharsFrom(s, i, chars) ==
  IF i > Len(s) THEN ""
  ELSE (IF CharAt(s, i) \in chars THEN "" ELSE CharAt(s, i)) \o RemoveCharsFrom(s, i + 1, chars)

RECURSIVE ReplaceSquaresFrom(_, _)
\* s.replace(/\b([a-h])([1-8])\b/g, `${fileNames[file] || file} ${rank}`)
ReplaceSquaresFrom(s, i) ==
  IF i > Len(s) THEN ""
  ELSE IF /\ Boundary(s, i)
          /\ CharAt(s, i) \in Files
          /\ CharAt(s, i + 1) \in Ranks
          /\ Boundary(s, i + 2)
       THEN fileNames[CharAt(s, i)] \o " " \o CharAt(s, i + 1) \o ReplaceSquaresFrom(s, i + 2)
       ELSE CharAt(s, i) \o ReplaceSquaresFrom(s, i + 1)

RECURSIVE ReplaceBeforeDigitFrom(_, _, _, _)
\* s.replace(/c(\d+\.?\d*)/g, 'r$1') and s.replace(/c(\d+)/g, 'r$1'): the
\* character c gives way to r wherever a digit follows it
ReplaceBeforeDigitFrom(s, i, c, r) ==
  IF i > Len(s) THEN ""
  ELSE (IF CharAt(s, i) = c /\ CharAt(s, i + 1) \in Digits THEN r ELSE CharAt(s, i))
         \o ReplaceBeforeDigitFrom(s, i + 1, c, r)

RECURSIVE SkipSpaces(_, _)
\* the first index from i on that holds no whitespace
SkipSpaces(s, i) ==
  IF i <= Len(s) /\ CharAt(s, i) \in Whitespace THEN SkipSpaces(s, i + 1) ELSE i

RECURSIVE CollapseSpacesFrom(_, _)
\* s.replace(/\s+/g, ' ')
CollapseSpacesFrom(s, i) ==
  IF i > Len(s) THEN ""
  ELSE IF CharAt(s, i) \in Whitespace
       THEN " " \o CollapseSpacesFrom(s, SkipSpaces(s, i))
       ELSE CharAt(s, i) \o CollapseSpacesFrom(s, i + 1)

RECURSIVE SpaceBeforePunctuationFrom(_, _)
\* s.replace(/\s+([,.!?])/g, '$1')
SpaceBeforePunctuationFrom(s, i) ==
  IF i > Len(s) THEN ""
  ELSE IF CharAt(s, i) \in Whitespace /\ CharAt(s, SkipSpaces(s, i)) \in {",", ".", "!", "?"}
       THEN CharAt(s, SkipSpaces(s, i)) \o SpaceBeforePunctuationFrom(s, SkipSpaces(s, i) + 1)
       ELSE CharAt(s, i) \o SpaceBeforePunctuationFrom(s, i + 1)

RECURSIVE Trim(_)
\* s.trim()
Trim(s) ==
  IF s = "" THEN ""
  ELSE IF CharAt(s, 1) \in Whitespace THEN Trim(SubSeq(s, 2, Len(s)))
  ELSE IF CharAt(s, Len(s)) \in Whitespace THEN Trim(SubSeq(s, 1, Len(s) - 1))
  ELSE s

\* normalizeText, statement by statement
normalizeText(text) ==
  LET n1 == RemoveCharsFrom(text, 1, {"+", "#", "!", "?"})
      n2 == ReplaceSquaresFrom(n1, 1)
      n3 == ReplaceWord(ReplaceWord(ReplaceWord(ReplaceWord(ReplaceWord(ReplaceWord(n2,
              "K", "King"), "Q", "Queen"), "R", "Rook"), "B", "Bishop"), "N", "Knight"),
              "P", "Pawn")
      n4 == ReplaceWord(ReplaceWord(n3, "O-O-O", "castles queenside"), "O-O", "castles kingside")
      n5 == ReplaceLiteral(n4, "x", "takes")
      n6 == ReplaceWordCI(ReplaceWordCI(n5, "check", "check"), "mate", "mate")
      n7 == ReplaceBeforeDigitFrom(ReplaceBeforeDigitFrom(ReplaceBeforeDigitFrom(n6,
              1, "+", "plus "), 1, "-", "minus "), 1, "#", "mate in ")
      n8 == ReplaceWordCI(ReplaceWordCI(ReplaceWordCI(ReplaceWordCI(ReplaceWordCI(ReplaceWordCI(n7,
              "pin", "pin"), "fork", "fork"), "skewer", "skewer"), "discovered", "discovered"),
              "double", "double"), "triple", "triple")
      n9 == ReplaceWordCI(ReplaceWordCI(ReplaceWordCI(ReplaceWordCI(ReplaceWordCI(ReplaceWordCI(n8,
              "Sicilian", "Sicilian"), "French", "French"), "Caro-Kann", "Caro Kann"),
              "Ruy Lopez", "Ruy Lopez"), "Italian", "Italian"), "English", "English")
  IN  Trim(SpaceBeforePunctuationFrom(CollapseSpacesFrom(n9, 1), 1))

\* normalizeMove, statement by statement
normalizeMove(move) ==
  LET m1 == ReplaceLiteral(ReplaceLiteral(move, "O-O-O", "castles queenside"),
                           "O-O", "castles kingside")
      m2 == IF /\ CharAt(m1, 1) \in DOMAIN pieceNames
               /\ CharAt(m1, 2) \in Files
               /\ CharAt(m1, 3) \in Ranks
            THEN pieceNames[CharAt(m1, 1)] \o " to " \o fileNames[CharAt(m1, 2)] \o " "
                   \o CharAt(m1, 3) \o SubSeq(m1, 4, Len(m1))
            ELSE m1
      m3 == IF CharAt(m2, 1) \in Files /\ CharAt(m2, 2) \in Ranks
            THEN "Pawn to " \o fileNames[CharAt(m2, 1)] \o " " \o CharAt(m2, 2)
                   \o SubSeq(m2, 3, Len(m2))
            ELSE m2
  IN  ReplaceLiteral(ReplaceLiteral(ReplaceLiteral(m3, "x", "takes"), "+", "check"), "#", "mate")

\* the examples of the README and other notation and commentary
NormalizerInputs ==
  {"Kxe4", "O-O", "O-O-O", "#3", "g2", "e4", "Nf3", "Bb5", "Qxd5+", "Rxe8#", "exd5",
   "K e4", "Q", "a1", "h8", "Nbd7", "+0.35", "-1.2", "e4 e5", "Nf3  Nc6", "O-O-O+",
   "White castles O-O", "Check !", "Caro-Kann", "good move , really", " e4 ",
   "mate in 3", "x", "N takes e5", "b4?"}

NotNormalized == [called |-> FALSE, text |-> ""]

NormalizerInit ==
  /\ normInput \in NormalizerInputs
  /\ textResult = NotNormalized
  /\ moveResult = NotNormalized

CallNormalizeText ==
  /\ ~textResult.called
  /\ textResult' = [called |-> TRUE, text |-> normalizeText(normInput)]
  /\ UNCHANGED <<normInput, moveResult>>
  /\ UNCHANGED notNormalizer

CallNormalizeMove ==
  /\ ~moveResult.called
  /\ moveResult' = [called |-> TRUE, text |-> normalizeMove(normInput)]
  /\ UNCHANGED <<normInput, textResult>>
  /\ UNCHANGED notNormalizer

NormalizerNext == CallNormalizeText \/ CallNormalizeMove

\* what the README documents
Documented ==
  [i \in {"Kxe4", "O-O", "O-O-O", "#3", "g2"} |->
     CASE i = "Kxe4" -> "King takes e4"
       [] i = "O-O" -> "castles kingside"
       [] i = "O-O-O" -> "castles queenside"
       [] i = "#3" -> "mate in 3"
       [] i = "g2" -> "gee two"]

\* C16: text normalization turns "Kxe4" into "King takes e4", "O-O" into
\* "castles kingside", "O-O-O" into "castles queenside", "#3" into
\* "mate in 3" and "g2" into "gee two".
C16_DocumentedExamples ==
  (textResult.called /\ normInput \in DOMAIN Documented) =>
    textResult.text = Documented[normInput]

\* what normalizeText and normalizeMove give for the documented inputs
NormalizerActual ==
  /\ normalizeText("Kxe4") = "Ktakese4" /\ normalizeMove("Kxe4") = "Ktakese4"
  /\ normalizeText("#3") = "3" /\ normalizeMove("#3") = "mate3"
  /\ normalizeText("g2") = "gee 2" /\ normalizeMove("g2") = "Pawn to gee 2"
  /\ normalizeText("Nf3") = "Nf3" /\ normalizeMove("Nf3") = "Knight to eff 3"
  /\ normalizeText("K e4") = "King ee 4"
  /\ normalizeText("Qxd5+") = "Qtakesd5" /\ normalizeMove("Qxd5+") = "Qtakesd5check"

\* castling is normalized as documented by both functions, the longer
\* notation first
CastlingNormalized ==
  \A r \in {textResult, moveResult} :
    r.called =>
      /\ normInput = "O-O" => r.text = "castles kingside"
      /\ normInput = "O-O-O" => r.text = "castles queenside"

\* ------------------------------------- estimateTotalDuration (lib/audio.ts)

EstimateDurations == {1250, 2000}

\* the scenes handed to estimateTotalDuration: an id and a numeric durationMs
EstimateScenes ==
  UNION {{[i \in 1..n |-> [id |-> SceneId(i), durationMs |-> ds[i]]] :
            ds \in [1..n -> EstimateDurations]} : n \in 0..MaxScenes}

\* the keys audioDurations may hold: scene ids, and keys that read as numbers
AudioKeys == SceneIds \cup {ToString(d) : d \in EstimateDurations}

\* an entry of audioDurations in ms: none, 0, or a measured duration
AudioEntries == {Undef, Num(0), Num(400)}

AudioDurationMaps == [AudioKeys -> AudioEntries]

\* a || b on an optional number a and a number b
OrElse(a, b) == IF Truthy(a) THEN a.v ELSE b

RECURSIVE estimateTotalDurationFrom(_, _, _)
\* the for loop: duration = audioDurations[scene.durationMs] || scene.durationMs,
\* the property key being the number durationMs turned into a string
estimateTotalDurationFrom(scenes, audioDurations, totalMs) ==
  IF scenes = <<>> THEN totalMs
  ELSE LET scene == Head(scenes)
           duration == OrElse(audioDurations[ToString(scene.durationMs)], scene.durationMs)
       IN  estimateTotalDurationFrom(Tail(scenes), audioDurations, totalMs + duration)

estimateTotalDuration(scenes, audioDurations) ==
  estimateTotalDurationFrom(scenes, audioDurations, 0)

NoEstimate == [called |-> FALSE, totalMs |-> 0]

EstimateInit ==
  /\ estimateScenes \in EstimateScenes
  /\ estimateAudio \in AudioDurationMaps
  /\ estimate = NoEstimate

CallEstimateTotalDuration ==
  /\ ~estimate.called
  /\ estimate' = [called |-> TRUE,
                  totalMs |-> estimateTotalDuration(estimateScenes, estimateAudio)]
  /\ UNCHANGED <<estimateScenes, estimateAudio>>
  /\ UNCHANGED notEstimate

EstimateNext == CallEstimateTotalDuration

RECURSIVE SumByIdentity(_, _)
\* the sum the claim describes: per scene the duration measured for the
\* scene's own id when there is one, the scene's durationMs otherwise
SumByIdentity(scenes, durs) ==
  IF scenes = <<>> THEN 0
  ELSE OrElse(durs[Head(scenes).id], Head(scenes).durationMs)
         + SumByIdentity(Tail(scenes), durs)

RECURSIVE SumOfDurationMs(_)
SumOfDurationMs(scenes) ==
  IF scenes = <<>> THEN 0 ELSE Head(scenes).durationMs + SumOfDurationMs(Tail(scenes))

\* C21: estimateTotalDuration is the sum over the scenes of the audio duration
\* measured for the scene when one is available and of its durationMs
\* otherwise: the sum of the durationMs for an empty audioDurations, and a
\* lookup by the scene's identity only, never by a number of the scene.
C21_EstimateSumsByIdentity ==
  estimate.called =>
    /\ estimate.totalMs = SumByIdentity(estimateScenes, estimateAudio)
    /\ (\A k \in AudioKeys : estimateAudio[k] = Undef) =>
         estimate.totalMs = SumOfDurationMs(estimateScenes)

\* what the code does give: the plain sum when no key reads as a durationMs
EstimateWithoutNumericKeys ==
  (estimate.called /\ \A d \in EstimateDurations : estimateAudio[ToString(d)] = Undef) =>
    estimate.totalMs = SumOfDurationMs(estimateScenes)

\* ---------------------------------------- generateTags (uploader/metadata.ts)

\* slice(0, 15) of the tags and slice(0, 5) of the highlights
TagLimit == 15

HighlightLimit == 5

\* timeline.meta fields; "" stands for a field that is absent or empty, which
\* `if (field)` takes alike.  A player may carry the name of a basic tag.
MetaWhites == {"Magnus Carlsen", "Chess"}

MetaBlacks == {"", "Ian Nepomniachtchi"}

MetaEvents == {"", "World Candidates Olympiad", "Chess Olympiad"}

MetaEcos == {"", "B90", "Open Games"}

\* what extractHighlights reads of a scene: its type, whether pins is a
\* non-empty array, and evalBarTarget in hundredths
TagSceneKinds ==
  {[type |-> "main", pins |-> p, evalBarTarget |-> e] : p \in BOOLEAN, e \in {-60, 0, 60}}
    \cup {[type |-> "alt", pins |-> FALSE, evalBarTarget |-> 0]}

TagScenes == UNION {[1..n -> TagSceneKinds] : n \in 0..MaxScenes}

\* the elements of a sequence
Range(seq) == {seq[i] : i \in 1..Len(seq)}

\* tags.push(x): an array keeps duplicates
SetAdd_Push(seq, x) == Append(seq, x)

\* Set.prototype.add: a Set keeps insertion order and holds no value twice
SetAdd(seq, x) == IF x \in Range(seq) THEN seq ELSE Append(seq, x)

\* tags.add(x) under a condition
AddIf(seq, cond, x) == IF cond THEN SetAdd(seq, x) ELSE seq

\* s.toLowerCase().includes(w), w in lower case
IncludesLower(s, w) ==
  \E i \in 1..(Len(s) - Len(w) + 1) :
    \A j \in 1..Len(w) : LowerOf(CharAt(s, i + j - 1)) = CharAt(w, j)

\* arr.slice(0, n)
SliceTo(seq, n) == SubSeq(seq, 1, Min(n, Len(seq)))

RECURSIVE Dedupe(_)
\* [...new Set(arr)]
Dedupe(seq) ==
  IF seq = <<>> THEN <<>>
  ELSE SetAdd(Dedupe(SubSeq(seq, 1, Len(seq) - 1)), seq[Len(seq)])

RECURSIVE highlightsOf(_)
\* the forEach of extractHighlights: the pushes of the scenes, in order
highlightsOf(scenes) ==
  IF scenes = <<>> THEN <<>>
  ELSE LET scene == Head(scenes)
           pin == IF scene.type = "main" /\ scene.pins
                  THEN <<"Pin tactics and tactical motifs">> ELSE <<>>
           swing == IF scene.type = "main" /\ Abs(scene.evalBarTarget) > 50
                    THEN <<(IF scene.evalBarTarget > 0 THEN "White" ELSE "Black")
                             \o " gains significant advantage">>
                    ELSE <<>>
       IN  pin \o swing \o highlightsOf(Tail(scenes))

extractHighlights(scenes) == SliceTo(Dedupe(highlightsOf(scenes)), HighlightLimit)

BasicTags == <<"Chess", "Chess Analysis", "Chess Game", "Chess Strategy", "Chess Master",
               "Chess Tutorial">>

RECURSIVE highlightTags(_, _)
\* highlights.forEach: the tags a highlight's words bring
highlightTags(tags, highlights) ==
  IF highlights = <<>> THEN tags
  ELSE LET h == Head(highlights)
           t1 == AddIf(tags, IncludesLower(h, "sacrifice"), "Chess Sacrifice")
           t2 == AddIf(t1, IncludesLower(h, "tactic"), "Chess Tactics")
           t3 == AddIf(t2, IncludesLower(h, "endgame"), "Chess Endgame")
           t4 == AddIf(t3, IncludesLower(h, "opening"), "Chess Opening")
           t5 == AddIf(t4, IncludesLower(h, "middlegame"), "Chess Middlegame")
       IN  highlightTags(t5, Tail(highlights))

\* generateTags, statement by statement
generateTags(meta, scenes) ==
  LET players == AddIf(AddIf(BasicTags, meta.white # "", meta.white),
                       meta.black # "", meta.black)
      e0 == AddIf(players, meta.event # "", meta.event)
      e1 == AddIf(e0, meta.event # "" /\ IncludesLower(meta.event, "world"),
                  "World Chess Championship")
      e2 == AddIf(e1, meta.event # "" /\ IncludesLower(meta.event, "candidates"),
                  "Candidates Tournament")
      e3 == AddIf(e2, meta.event # "" /\ IncludesLower(meta.event, "olympiad"),
                  "Chess Olympiad")
      o0 == AddIf(e3, meta.eco # "", meta.eco)
      o1 == AddIf(o0, CharAt(meta.eco, 1) = "A", "Flank Openings")
      o2 == AddIf(o1, CharAt(meta.eco, 1) = "B", "Semi-Open Games")
      o3 == AddIf(o2, CharAt(meta.eco, 1) = "C", "Open Games")
      o4 == AddIf(o3, CharAt(meta.eco, 1) = "D", "Closed Games")
      o5 == AddIf(o4, CharAt(meta.eco, 1) = "E", "Indian Defenses")
  IN  SliceTo(highlightTags(o5, extractHighlights(scenes)), TagLimit)

NoList == [called |-> FALSE, list |-> <<>>]

TagsInit ==
  /\ tagMeta \in [white : MetaWhites, black : MetaBlacks, event : MetaEvents, eco : MetaEcos]
  /\ tagScenes \in TagScenes
  /\ tagsResult = NoList
  /\ highlightsResult = NoList

CallGenerateTags ==
  /\ ~tagsResult.called
  /\ tagsResult' = [called |-> TRUE, list |-> generateTags(tagMeta, tagScenes)]
  /\ UNCHANGED <<tagMeta, tagScenes, highlightsResult>>
  /\ UNCHANGED notTags

CallExtractHighlights ==
  /\ ~highlightsResult.called
  /\ highlightsResult' = [called |-> TRUE, list |-> extractHighlights(tagScenes)]
  /\ UNCHANGED <<tagMeta, tagScenes, tagsResult>>
  /\ UNCHANGED notTags

TagsNext == CallGenerateTags \/ CallExtractHighlights

\* no value stands at two indices
NoDuplicates(seq) == \A i, j \in 1..Len(seq) : seq[i] = seq[j] => i = j

\* C22: generateTags returns at most 15 tags, none twice, the six basic tags
\* among them; extractHighlights returns at most 5 highlights, none twice.
C22_TagsBounded ==
  /\ tagsResult.called =>
       /\ Len(tagsResult.list) <= 15
       /\ NoDuplicates(tagsResult.list)
       /\ Range(BasicTags) \subseteq Range(tagsResult.list)
  /\ highlightsResult.called =>
       /\ Len(highlightsResult.list) <= 5
       /\ NoDuplicates(highlightsResult.list)

\* fifteen tags, from a player named like a basic tag and an opening named
\* like its own family tag were there room; and highlights met more than once
C22_Witness ==
  /\ tagsResult.called /\ highlightsResult.called
  /\ tagMeta.white = "Chess"
  /\ Len(tagsResult.list) >= 13
  /\ Len(highlightsOf(tagScenes)) > Len(highlightsResult.list)
  /\ Len(highlightsResult.list) >= 2

\* ------------------------------- uploader (youtube_client.ts, upload command)

\* A JavaScript object is a function from the property names it has; an
\* absent property is a name outside its DOMAIN.
NoProps == [f \in {} |-> ""]

\* { ...a, ...b }
Spread(a, b) ==
  [f \in DOMAIN a \cup DOMAIN b |-> IF f \in DOMAIN b THEN b[f] ELSE a[f]]

\* an object holding the one property f
Prop(f, v) == [g \in {f} |-> v]

\* truthiness of an optional string property: absent, undefined and ''
\* are falsy
HasString(o, f) == f \in DOMAIN o /\ o[f] # ""

\* truthiness of an optional array property: every array is truthy, the
\* empty one included
HasArray(o, f) == f \in DOMAIN o

\* process.env: each of the three variables is set, empty or missing
EnvValues == {"", "secret"}

Envs ==
  {[GOOGLE_CLIENT_ID |-> a, GOOGLE_CLIENT_SECRET |-> b, GOOGLE_REFRESH_TOKEN |-> c] :
     a \in EnvValues, b \in EnvValues, c \in EnvValues}

\* getYouTubeClient: TRUE when a client is returned, FALSE when it throws
getYouTubeClient(env) ==
  ~(env.GOOGLE_CLIENT_ID = "" \/ env.GOOGLE_CLIENT_SECRET = ""
      \/ env.GOOGLE_REFRESH_TOKEN = "")

\* how fs.readFile and an API request settle
IoResults == {"ok", "rejected"}

\* uploadResponse.data of videos.insert: without an id, with an empty id,
\* with an id
InsertData == {Prop("etag", "e1"), Prop("id", ""), Prop("id", "abc123")}

BaseUploadOptions ==
  [path |-> "video.mp4", title |-> "White vs Black", description |-> "A game",
   tags |-> <<"chess">>, privacy |-> "unlisted"]

OptionalThumbs == {NoProps, Prop("thumbPath", ""), Prop("thumbPath", "thumb.png")}

OptionalPublishAts == {NoProps, Prop("publishAt", "2026-12-01T10:00:00Z")}

UploadOptionsSet ==
  {Spread(Spread(BaseUploadOptions, t), p) : t \in OptionalThumbs, p \in OptionalPublishAts}

\* what the API saw and how the promise settled
UploadOutcome(calls, threw, value) == [calls |-> calls, threw |-> threw, value |-> value]

videoMetadata(options) ==
  [snippet |-> [title |-> options.title, description |-> options.description,
                tags |-> options.tags,
                categoryId |-> IF HasString(options, "categoryId")
                                 THEN options.categoryId ELSE "20",
                defaultLanguage |-> IF HasString(options, "defaultLanguage")
                                      THEN options.defaultLanguage ELSE "en"],
   status |-> Spread([privacyStatus |-> options.privacy,
                      selfDeclaredMadeForKids |-> "false"],
                     IF HasString(options, "publishAt")
                       THEN Prop("publishAt", options.publishAt) ELSE NoProps)]

\* uploadThumbnail: a client of its own, the file read, then thumbnails.set.
\* The calls it made, and whether it threw.
uploadThumbnail(videoId, env, readThumb, thumbSet) ==
  IF ~getYouTubeClient(env) THEN UploadOutcome(<<>>, TRUE, NoProps)
  ELSE IF readThumb = "rejected" THEN UploadOutcome(<<>>, TRUE, NoProps)
  ELSE UploadOutcome(<<[api |-> "thumbnails.set", videoId |-> videoId]>>,
                     thumbSet = "rejected", NoProps)

\* uploadVideo with the thumbnail upload outside any try of its own: its
\* failure reaches the outer catch, which rethrows
uploadVideo_ThumbnailUncaught(options, env, readVideo, insert, insertData, readThumb, thumbSet) ==
  IF ~getYouTubeClient(env) THEN UploadOutcome(<<>>, TRUE, NoProps)
  ELSE IF readVideo = "rejected" THEN UploadOutcome(<<>>, TRUE, NoProps)
  ELSE
    LET insertCall == [api |-> "videos.insert", requestBody |-> videoMetadata(options)]
    IN IF insert = "rejected" THEN UploadOutcome(<<insertCall>>, TRUE, NoProps)
       ELSE IF ~HasString(insertData, "id") THEN UploadOutcome(<<insertCall>>, TRUE, NoProps)
       ELSE
         LET videoId == insertData.id
             thumb == IF HasString(options, "thumbPath")
                        THEN uploadThumbnail(videoId, env, readThumb, thumbSet)
                        ELSE UploadOutcome(<<>>, FALSE, NoProps)
         IN IF thumb.threw
              THEN UploadOutcome(<<insertCall>> \o thumb.calls, TRUE, NoProps)
              ELSE UploadOutcome(<<insertCall>> \o thumb.calls, FALSE,
                                 [videoId |-> videoId,
                                  url |-> "https://www.youtube.com/watch?v=" \o videoId,
                                  status |-> "uploaded"])

\* uploadVideo.  getYouTubeClient runs before the try; fs.readFile(options.path)
\* is awaited while the argument of videos.insert is built, so a failed read
\* throws before the request is made; a falsy id throws; the thumbnail upload
\* has a try of its own whose catch only warns.
uploadVideo(options, env, readVideo, insert, insertData, readThumb, thumbSet) ==
  IF ~getYouTubeClient(env) THEN UploadOutcome(<<>>, TRUE, NoProps)
  ELSE IF readVideo = "rejected" THEN UploadOutcome(<<>>, TRUE, NoProps)
  ELSE
    LET insertCall == [api |-> "videos.insert", requestBody |-> videoMetadata(options)]
    IN IF insert = "rejected" THEN UploadOutcome(<<insertCall>>, TRUE, NoProps)
       ELSE IF ~HasString(insertData, "id") THEN UploadOutcome(<<insertCall>>, TRUE, NoProps)
       ELSE
         LET videoId == insertData.id
             thumb == IF HasString(options, "thumbPath")
                        THEN uploadThumbnail(videoId, env, readThumb, thumbSet)
                        ELSE UploadOutcome(<<>>, FALSE, NoProps)
         IN UploadOutcome(<<insertCall>> \o thumb.calls, FALSE,
                          [videoId |-> videoId,
                           url |-> "https://www.youtube.com/watch?v=" \o videoId,
                           status |-> "uploaded"])

\* ---- the upload command

\* what commander hands to the action: --thumb, --publish-at and --dry-run
\* are absent unless given, --dry-run is a flag
OptionalDryRuns == {NoProps, Prop("dryRun", "true")}

CliOptionsSet ==
  {Spread(Spread(Spread([video |-> "video.mp4", timeline |-> "timeline.json",
                         privacy |-> "unlisted"], t), p), d) :
     t \in {NoProps, Prop("thumb", "thumb.png")},
     p \in {NoProps, Prop("publishAt", "2026-12-01T10:00:00Z")},
     d \in OptionalDryRuns}

\* reading and parsing the timeline file
TimelineFiles == {"ok", "missing", "invalidJson"}

\* the outcome of generateMetadata and generateChaptersText on a timeline
GeneratedMetadata ==
  [title |-> "White vs Black", description |-> "A game", tags |-> <<"chess">>,
   categoryId |-> "20"]

GeneratedChaptersText == "Chapters:\n0:00 Opening\n0:00 Conclusion\n"

\* the options the action hands to uploadVideo
uploadOptions(options) ==
  Spread(Spread([path |-> options.video, title |-> GeneratedMetadata.title,
                 description |-> GeneratedMetadata.description \o "\n\n"
                                   \o GeneratedChaptersText,
                 tags |-> GeneratedMetadata.tags, privacy |-> options.privacy,
                 categoryId |-> GeneratedMetadata.categoryId],
                IF "thumb" \in DOMAIN options
                  THEN Prop("thumbPath", options.thumb) ELSE NoProps),
         IF "publishAt" \in DOMAIN options
           THEN Prop("publishAt", options.publishAt) ELSE NoProps)

\* the steps the action took, the API calls made, the exit code
CommandOutcome(steps, calls, exitCode) ==
  [steps |-> steps, calls |-> calls, exitCode |-> exitCode]

\* the action without the `if (options.dryRun)` return
uploadAction_NoDryRunReturn(options, file, env, readVideo, insert, insertData, readThumb, thumbSet) ==
  IF file = "missing" THEN CommandOutcome(<<"readFile">>, <<>>, 1)
  ELSE IF file = "invalidJson" THEN CommandOutcome(<<"readFile", "JSON.parse">>, <<>>, 1)
  ELSE
    LET generated == <<"readFile", "JSON.parse", "generateMetadata", "generateChaptersText">>
        upload == uploadVideo(uploadOptions(options), env, readVideo, insert,
                              insertData, readThumb, thumbSet)
    IN CommandOutcome(generated \o <<"uploadVideo">>, upload.calls,
                      IF upload.threw THEN 1 ELSE 0)

\* the action of the upload command: every throw lands in the catch, which
\* exits with 1
uploadAction(options, file, env, readVideo, insert, insertData, readThumb, thumbSet) ==
  IF file = "missing" THEN CommandOutcome(<<"readFile">>, <<>>, 1)
  ELSE IF file = "invalidJson" THEN CommandOutcome(<<"readFile", "JSON.parse">>, <<>>, 1)
  ELSE
    LET generated == <<"readFile", "JSON.parse", "generateMetadata", "generateChaptersText">>
    IN IF HasString(options, "dryRun") THEN CommandOutcome(generated, <<>>, 0)
       ELSE
         LET upload == uploadVideo(uploadOptions(options), env, readVideo, insert,
                                   insertData, readThumb, thumbSet)
         IN CommandOutcome(generated \o <<"uploadVideo">>, upload.calls,
                           IF upload.threw THEN 1 ELSE 0)

\* ---- updateVideoMetadata

\* the video videos.list returns
CurrentVideos ==
  {[snippet |-> [title |-> "Old Title", description |-> "Old description",
                 tags |-> <<"chess">>, categoryId |-> "20",
                 channelTitle |-> "Chess Channel"],
    status |-> [privacyStatus |-> "unlisted", selfDeclaredMadeForKids |-> "false"]],
   [snippet |-> [title |-> "Old Title", description |-> "", tags |-> <<>>,
                 categoryId |-> "20", channelTitle |-> "Chess Channel"],
    status |-> [privacyStatus |-> "private", selfDeclaredMadeForKids |-> "false",
                publishAt |-> "2026-12-01T10:00:00Z"]]}

\* videoResponse.data.items: undefined, empty, or holding the video
ListKinds == {"rejected", "noItems", "emptyItems", "found"}

\* Partial<UploadOptions>: each property absent or given; a given title may
\* be empty, given tags may be the empty array
UpdatesSet ==
  {Spread(Spread(Spread(t, d), g), p) :
     t \in {NoProps, Prop("title", ""), Prop("title", "New Title")},
     d \in {NoProps, Prop("description", "New description")},
     g \in {NoProps, Prop("tags", <<>>), Prop("tags", <<"chess", "tactics">>)},
     p \in {NoProps, Prop("privacy", "public")}}

\* updatedVideo built from the updates alone, without spreading the video
updatedVideo_NoSpread(videoId, video, updates) ==
  [id |-> videoId,
   snippet |-> Spread(Spread(
                 IF HasString(updates, "title") THEN Prop("title", updates.title) ELSE NoProps,
                 IF HasString(updates, "description")
                   THEN Prop("description", updates.description) ELSE NoProps),
                 IF HasArray(updates, "tags") THEN Prop("tags", updates.tags) ELSE NoProps),
   status |-> IF HasString(updates, "privacy")
                THEN Prop("privacyStatus", updates.privacy) ELSE NoProps]

\* updatedVideo: the video's snippet and status, overridden by the truthy
\* updates
updatedVideo(videoId, video, updates) ==
  [id |-> videoId,
   snippet |-> Spread(Spread(Spread(video.snippet,
                 IF HasString(updates, "title") THEN Prop("title", updates.title) ELSE NoProps),
                 IF HasString(updates, "description")
                   THEN Prop("description", updates.description) ELSE NoProps),
                 IF HasArray(updates, "tags") THEN Prop("tags", updates.tags) ELSE NoProps),
   status |-> Spread(video.status,
                 IF HasString(updates, "privacy")
                   THEN Prop("privacyStatus", updates.privacy) ELSE NoProps)]

\* updateVideoMetadata: nothing is caught
updateVideoMetadata(videoId, updates, env, list, video, update) ==
  IF ~getYouTubeClient(env) THEN UploadOutcome(<<>>, TRUE, NoProps)
  ELSE
    LET listCall == [api |-> "videos.list", id |-> videoId]
    IN IF list # "found" THEN UploadOutcome(<<listCall>>, TRUE, NoProps)
       ELSE UploadOutcome(<<listCall, [api |-> "videos.update",
                                       requestBody |-> updatedVideo(videoId, video, updates)]>>,
                          update = "rejected", NoProps)

\* ---- the calls

NoUploaderCall == [fn |-> "none"]

UploaderInit == uploaderCall = NoUploaderCall

CallUploadVideo ==
  /\ uploaderCall = NoUploaderCall
  /\ \E options \in UploadOptionsSet, env \in Envs, readVideo \in IoResults,
        insert \in IoResults, insertData \in InsertData, readThumb \in IoResults,
        thumbSet \in IoResults :
       uploaderCall' =
         [fn |-> "uploadVideo", options |-> options, env |-> env,
          readVideo |-> readVideo, insert |-> insert, insertData |-> insertData,
          readThumb |-> readThumb, thumbSet |-> thumbSet,
          result |-> uploadVideo(options, env, readVideo, insert, insertData,
                                 readThumb, thumbSet)]
  /\ UNCHANGED notUploader

CallUploadAction ==
  /\ uploaderCall = NoUploaderCall
  /\ \E options \in CliOptionsSet, file \in TimelineFiles, env \in Envs,
        readVideo \in IoResults, insert \in IoResults, insertData \in InsertData,
        readThumb \in IoResults, thumbSet \in IoResults :
       uploaderCall' =
         [fn |-> "upload", options |-> options, file |-> file, env |-> env,
          result |-> uploadAction(options, file, env, readVideo, insert,
                                  insertData, readThumb, thumbSet)]
  /\ UNCHANGED notUploader

CallUpdateVideoMetadata ==
  /\ uploaderCall = NoUploaderCall
  /\ \E updates \in UpdatesSet, env \in Envs, list \in ListKinds,
        video \in CurrentVideos, update \in IoResults :
       uploaderCall' =
         [fn |-> "updateVideoMetadata", videoId |-> "abc123", updates |-> updates,
          env |-> env, list |-> list, video |-> video, update |-> update,
          result |-> updateVideoMetadata("abc123", updates, env, list, video, update)]
  /\ UNCHANGED notUploader

UploaderNext == CallUploadVideo \/ CallUploadAction \/ CallUpdateVideoMetadata

\* the API calls of a finished call, by name
ApiCalls(result, api) == {i \in 1..Len(result.calls) : result.calls[i].api = api}

\* C23: with --dry-run the upload action never invokes uploadVideo and makes
\* no YouTube API call, on every path; when the timeline file loads, the
\* metadata and the chapters are still generated.
C23_DryRunUploadsNothing ==
  (uploaderCall.fn = "upload" /\ HasString(uploaderCall.options, "dryRun")) =>
    /\ \A i \in 1..Len(uploaderCall.result.steps) :
         uploaderCall.result.steps[i] # "uploadVideo"
    /\ uploaderCall.result.calls = <<>>
    /\ uploaderCall.file = "ok" =>
         /\ \E i \in 1..Len(uploaderCall.result.steps) :
              uploaderCall.result.steps[i] = "generateMetadata"
         /\ \E i \in 1..Len(uploaderCall.result.steps) :
              uploaderCall.result.steps[i] = "generateChaptersText"
         /\ uploaderCall.result.exitCode = 0

\* a dry run over a timeline that loads, with credentials and a thumbnail
\* that would have let the upload go through
C23_Witness ==
  /\ uploaderCall.fn = "upload"
  /\ HasString(uploaderCall.options, "dryRun")
  /\ "thumb" \in DOMAIN uploaderCall.options
  /\ uploaderCall.file = "ok"
  /\ getYouTubeClient(uploaderCall.env)
  /\ uploaderCall.result.exitCode = 0

\* without --dry-run the same action does upload
UploadWithoutDryRun ==
  /\ uploaderCall.fn = "upload"
  /\ ~HasString(uploaderCall.options, "dryRun")
  /\ ApiCalls(uploaderCall.result, "thumbnails.set") # {}

\* the insert returned an id
InsertReturnedId(c) ==
  /\ getYouTubeClient(c.env)
  /\ c.readVideo = "ok"
  /\ c.insert = "ok"
  /\ HasString(c.insertData, "id")

\* C26: the thumbnail upload is attempted only after the video insert has
\* returned a video id; a thumbnail failure never fails the upload, which
\* still returns the video id with status 'uploaded'; when the insert
\* returns no id or the credentials are missing, uploadVideo throws and
\* makes no thumbnail call.
C26_ThumbnailBestEffort ==
  uploaderCall.fn = "uploadVideo" =>
    LET c == uploaderCall
        r == uploaderCall.result
    IN /\ \A i \in ApiCalls(r, "thumbnails.set") :
            /\ InsertReturnedId(c)
            /\ \E j \in ApiCalls(r, "videos.insert") : j < i
            /\ r.calls[i].videoId = c.insertData.id
       /\ InsertReturnedId(c) =>
            /\ ~r.threw
            /\ r.value.videoId = c.insertData.id
            /\ r.value.status = "uploaded"
       /\ ~InsertReturnedId(c) =>
            /\ r.threw
            /\ ApiCalls(r, "thumbnails.set") = {}

\* the insert returned an id and the thumbnails.set request was rejected
C26_Witness ==
  /\ uploaderCall.fn = "uploadVideo"
  /\ InsertReturnedId(uploaderCall)
  /\ ApiCalls(uploaderCall.result, "thumbnails.set") # {}
  /\ uploaderCall.thumbSet = "rejected"
  /\ ~uploaderCall.result.threw

\* the properties of the updates and the property of the video each sets
SnippetUpdates == {"title", "description", "tags"}

\* C27: title, description, tags and privacy status absent from the updates
\* keep the value read from the current video; every other snippet and
\* status field is sent back unchanged; when the video is not found the
\* function throws without issuing any update call.
C27_UpdateFrame ==
  uploaderCall.fn = "updateVideoMetadata" =>
    LET c == uploaderCall
        r == uploaderCall.result
    IN /\ \A i \in ApiCalls(r, "videos.update") :
            LET body == r.calls[i].requestBody
            IN /\ c.list = "found"
               /\ body.id = c.videoId
               /\ DOMAIN body.snippet = DOMAIN c.video.snippet
               /\ DOMAIN body.status = DOMAIN c.video.status
               /\ \A f \in DOMAIN c.video.snippet :
                    (f \notin SnippetUpdates \/ f \notin DOMAIN c.updates) =>
                      body.snippet[f] = c.video.snippet[f]
               /\ \A f \in DOMAIN c.video.status :
                    (f # "privacyStatus" \/ "privacy" \notin DOMAIN c.updates) =>
                      body.status[f] = c.video.status[f]
       /\ (getYouTubeClient(c.env) /\ c.list = "found") =>
            Cardinality(ApiCalls(r, "videos.update")) = 1
       /\ c.list # "found" =>
            /\ r.threw
            /\ ApiCalls(r, "videos.update") = {}

\* an update of the title alone, sent for a video that was found
C27_Witness ==
  /\ uploaderCall.fn = "updateVideoMetadata"
  /\ DOMAIN uploaderCall.updates = {"title"}
  /\ uploaderCall.updates.title = "New Title"
  /\ "publishAt" \in DOMAIN uploaderCall.video.status
  /\ ApiCalls(uploaderCall.result, "videos.update") # {}

\* --------------------------------------------- generateChapters (chapters.ts)

MaxMixed == 2

\* the scenes of a timeline as generateChapters reads them: type,
\* durationMs, whether pins is non-empty, evalBarTarget in hundredths and
\* the number of attacked squares of both sides
PlainMain ==
  [type |-> "main", durationMs |-> 2000, pins |-> FALSE, evalBarTarget |-> 10,
   attacked |-> 4]

ChapterSceneKinds ==
  {PlainMain,
   [type |-> "main", durationMs |-> 61000, pins |-> TRUE, evalBarTarget |-> 0,
    attacked |-> 4],
   [type |-> "main", durationMs |-> 0, pins |-> FALSE, evalBarTarget |-> -60,
    attacked |-> 12],
   [type |-> "alt", durationMs |-> 1200, pins |-> TRUE, evalBarTarget |-> 60,
    attacked |-> 12],
   [type |-> "reset", durationMs |-> 500, pins |-> FALSE, evalBarTarget |-> 0,
    attacked |-> 0]}

\* n plain main scenes in a row
Mains(n) == [i \in 1..n |-> PlainMain]

\* the main scenes before and after the mixed stretch: enough to stand just
\* below, at and above the 10th and the 31st main scene
LeadingMains == {0, 8, 9, 29, 30}

\* a long tail only behind a short head, which keeps a timeline under 35
\* scenes
TrailingMains(a) == IF a < 10 THEN {0, 1, 2, 21, 22} ELSE {0, 1, 2}

MixedScenes == UNION {[1..n -> ChapterSceneKinds] : n \in 0..MaxMixed}

ChapterTimelines ==
  UNION {{Mains(a) \o mixed \o Mains(b) : mixed \in MixedScenes, b \in TrailingMains(a)} :
           a \in LeadingMains}

\* seconds.toString().padStart(2, '0')
PadStart2(s) == IF Len(s) < 2 THEN "0" \o s ELSE s

\* formatTime, for a time that is not negative
formatTime(timeMs) ==
  LET totalSeconds == timeMs \div 1000
      minutes == totalSeconds \div 60
      seconds == totalSeconds % 60
  IN ToString(minutes) \o ":" \o PadStart2(ToString(seconds))

isInterestingMove(scene) ==
  IF scene.type # "main" THEN FALSE
  ELSE IF scene.pins THEN TRUE
  ELSE IF Abs(scene.evalBarTarget) > 30 THEN TRUE
  ELSE scene.attacked > 8

generateMoveTitle(scene, moveNumber, player) ==
  "Move " \o ToString(moveNumber) \o " (" \o player \o ")"
    \o (IF scene.pins THEN " - Pin Tactics" ELSE "")
    \o (IF Abs(scene.evalBarTarget) > 50
          THEN (IF scene.evalBarTarget > 0 THEN " - White Advantage"
                                           ELSE " - Black Advantage")
          ELSE "")
    \o (IF scene.attacked > 10 THEN " - Tactical Complexity" ELSE "")

\* the phase test with the lower limit excluded
phaseChapter_After10(moveCount, inMiddlegame, inEndgame) ==
  IF moveCount > 10 /\ moveCount <= 30 /\ ~inMiddlegame THEN "Middlegame"
  ELSE IF moveCount > 30 /\ ~inEndgame THEN "Endgame"
  ELSE "none"

\* the phase chapter a main scene opens, if any
phaseChapter(moveCount, inMiddlegame, inEndgame) ==
  IF moveCount >= 10 /\ moveCount <= 30 /\ ~inMiddlegame THEN "Middlegame"
  ELSE IF moveCount > 30 /\ ~inEndgame THEN "Endgame"
  ELSE "none"

\* the clock advancing on main scenes only
nextTimeMs_MainOnly(currentTimeMs, scene) ==
  IF scene.type = "main" THEN currentTimeMs + scene.durationMs ELSE currentTimeMs

\* currentTimeMs += scene.durationMs, outside the `if (scene.type === 'main')`
nextTimeMs(currentTimeMs, scene) == currentTimeMs + scene.durationMs

Chapter(timeMs, title) == [time |-> formatTime(timeMs), title |-> title]

\* the locals of generateChapters before the loop; `at` keeps, for every
\* chapter pushed, the forEach index at which it was pushed
ChaptersStart ==
  [chapters |-> <<Chapter(0, "Opening")>>, at |-> <<0>>, currentTimeMs |-> 0,
   moveCount |-> 0, inMiddlegame |-> FALSE, inEndgame |-> FALSE]

\* one call of the forEach callback; index is the zero-based index
forEachScene(st, scene, index) ==
  LET isMain == scene.type = "main"
      moveCount == IF isMain THEN st.moveCount + 1 ELSE st.moveCount
      phase == IF isMain THEN phaseChapter(moveCount, st.inMiddlegame, st.inEndgame)
               ELSE "none"
      phaseChapters == IF phase = "none" THEN <<>>
                       ELSE <<Chapter(st.currentTimeMs, phase)>>
      moveChapters ==
        IF isMain /\ isInterestingMove(scene)
          THEN <<Chapter(st.currentTimeMs,
                         generateMoveTitle(scene, (moveCount + 1) \div 2,
                                           IF moveCount % 2 = 1 THEN "White" ELSE "Black"))>>
          ELSE <<>>
      pushed == phaseChapters \o moveChapters
  IN [chapters |-> st.chapters \o pushed,
      at |-> st.at \o [i \in 1..Len(pushed) |-> index],
      currentTimeMs |-> nextTimeMs(st.currentTimeMs, scene),
      moveCount |-> moveCount,
      inMiddlegame |-> st.inMiddlegame \/ phase = "Middlegame",
      inEndgame |-> st.inEndgame \/ phase = "Endgame"]

\* the locals after the callback has run on the first n scenes
RECURSIVE forEachFrom(_, _)
forEachFrom(scenes, n) ==
  IF n = 0 THEN ChaptersStart
  ELSE forEachScene(forEachFrom(scenes, n - 1), scenes[n], n - 1)

\* generateChapters: the chapters, and the index each was pushed at (the
\* number of scenes for 'Conclusion')
generateChapters(scenes) ==
  LET st == forEachFrom(scenes, Len(scenes))
  IN [called |-> TRUE,
      chapters |-> Append(st.chapters, Chapter(st.currentTimeMs, "Conclusion")),
      at |-> Append(st.at, Len(scenes))]

NoChapters == [called |-> FALSE, chapters |-> <<>>, at |-> <<>>]

ChaptersInit ==
  /\ chapterScenes \in ChapterTimelines
  /\ chaptersResult = NoChapters

CallGenerateChapters ==
  /\ ~chaptersResult.called
  /\ chaptersResult' = generateChapters(chapterScenes)
  /\ UNCHANGED chapterScenes
  /\ UNCHANGED notChapters

ChaptersNext == CallGenerateChapters

\* ---- the claims about generateChapters

\* the durationMs of the first n scenes, summed
RECURSIVE ElapsedBefore(_, _)
ElapsedBefore(scenes, n) ==
  IF n = 0 THEN 0 ELSE ElapsedBefore(scenes, n - 1) + scenes[n].durationMs

\* a chapter time read back: "m:ss" as seconds
DigitValue(c) == CHOOSE d \in 0..9 : ToString(d) = c

RECURSIVE ParseNat(_)
ParseNat(s) ==
  IF s = "" THEN 0
  ELSE 10 * ParseNat(SubSeq(s, 1, Len(s) - 1)) + DigitValue(CharAt(s, Len(s)))

SecondsOf(time) ==
  LET colon == CHOOSE i \in 1..Len(time) : CharAt(time, i) = ":"
  IN 60 * ParseNat(SubSeq(time, 1, colon - 1))
       + ParseNat(SubSeq(time, colon + 1, Len(time)))

ChaptersTitled(title) ==
  {k \in 1..Len(chaptersResult.chapters) : chaptersResult.chapters[k].title = title}

\* C24: the time of every chapter is the sum of durationMs of all scenes
\* (main, alt and reset) preceding the scene at which it is emitted; the
\* list starts with 'Opening' at 0:00 and ends with 'Conclusion' at the sum
\* of all scene durations; chapter times are non-decreasing along the list.
C24_ChapterTimes ==
  chaptersResult.called =>
    LET chapters == chaptersResult.chapters
        n == Len(chapters)
    IN /\ n >= 2
       /\ chapters[1] = [time |-> "0:00", title |-> "Opening"]
       /\ chapters[n].title = "Conclusion"
       /\ chapters[n].time = formatTime(ElapsedBefore(chapterScenes, Len(chapterScenes)))
       /\ \A k \in 1..n :
            chapters[k].time = formatTime(ElapsedBefore(chapterScenes, chaptersResult.at[k]))
       /\ \A k \in 1..(n - 1) :
            /\ chaptersResult.at[k] <= chaptersResult.at[k + 1]
            /\ SecondsOf(chapters[k].time) <= SecondsOf(chapters[k + 1].time)

\* a scene that is not a main scene comes before the 10th main scene, whose
\* 'Middlegame' chapter lies past the first minute
C24_Witness ==
  /\ chaptersResult.called
  /\ \E k \in ChaptersTitled("Middlegame") :
       /\ \E i \in 1..chaptersResult.at[k] : chapterScenes[i].type # "main"
       /\ SecondsOf(chaptersResult.chapters[k].time) >= 60
  /\ Len(chaptersResult.chapters) >= 4

\* the main scenes of the timeline, by position
MainScenes(scenes) == {i \in 1..Len(scenes) : scenes[i].type = "main"}

\* the position of the n-th main scene
NthMain(scenes, n) ==
  CHOOSE i \in MainScenes(scenes) :
    Cardinality({j \in MainScenes(scenes) : j <= i}) = n

\* C25: 'Middlegame' is emitted exactly once, at the 10th main scene, when
\* the timeline has at least 10 main scenes; 'Endgame' exactly once, at the
\* 31st, when it has more than 30; 'Endgame' never comes before
\* 'Middlegame'; a timeline with fewer than 10 main scenes gets neither.
C25_PhaseChapters ==
  chaptersResult.called =>
    LET mains == Cardinality(MainScenes(chapterScenes))
        middlegame == ChaptersTitled("Middlegame")
        endgame == ChaptersTitled("Endgame")
    IN /\ mains >= 10 =>
            /\ Cardinality(middlegame) = 1
            /\ \A k \in middlegame :
                 chaptersResult.at[k] + 1 = NthMain(chapterScenes, 10)
       /\ mains > 30 =>
            /\ Cardinality(endgame) = 1
            /\ \A k \in endgame :
                 chaptersResult.at[k] + 1 = NthMain(chapterScenes, 31)
       /\ mains <= 30 => endgame = {}
       /\ mains < 10 => middlegame = {} /\ endgame = {}
       /\ \A i \in middlegame, j \in endgame : i < j

\* both phase chapters, with a scene that is not a main scene before the
\* 10th main scene and a move chapter between the two
C25_Witness ==
  /\ chaptersResult.called
  /\ ChaptersTitled("Middlegame") # {}
  /\ ChaptersTitled("Endgame") # {}
  /\ \E i \in 1..NthMain(chapterScenes, 10) : chapterScenes[i].type # "main"
  /\ Len(chaptersResult.chapters) >= 5

\* a timeline of exactly nine main scenes gets no phase chapter
NineMainsNoPhase ==
  /\ chaptersResult.called
  /\ Cardinality(MainScenes(chapterScenes)) = 9
  /\ Len(chapterScenes) > 9

\* ------------------------------------------------------- the specifications

vars == <<timingVars, durationVars, videoVars, storeVars, previewVars,
    evalBarVars, loadersVars, ttsVars, normalizerVars, estimateVars,
    tagsVars, uploaderVars, chaptersVars>>

TimingIdle ==
  /\ sceneDurationMs = 0
  /\ cueTimes = [defined |-> FALSE, map |-> [w \in Keywords |-> Undef]]
  /\ keyword = "pinned"
  /\ fallbackPercent = 0
  /\ fps = 30
  /\ timingAudio = NoTiming
  /\ timingBrowserSafe = NoTiming
  /\ timingAudioBrowser = NoTiming

DurationIdle ==
  /\ audioDurationMs = 0
  /\ minDuration = Undef
  /\ maxDuration = Undef
  /\ paddingMs = Undef
  /\ durationAudio = NoDuration
  /\ durationBrowserSafe = NoDuration

VideoIdle ==
  /\ videoFps = 30
  /\ timeline = SAFE_FALLBACK
  /\ timelineState = "loading"
  /\ timelineResponse = NoResponse
  /\ durations = EmptyDurations
  /\ durationsState = "loading"
  /\ segments = <<>>
  /\ rendered = [overlay |-> TRUE, fragments |-> <<>>]
  /\ computed = NotComputed

PreviewIdle ==
  /\ cp = Undef
  /\ mate = Undef
  /\ previewFirst = NoPreview
  /\ previewSecond = NoPreview

EvalBarIdle ==
  /\ evalTarget = 0
  /\ evalDelay = Undef
  /\ evalDuration = Undef
  /\ evalFrame = 0
  /\ evalBar = NoBar

NormalizerIdle ==
  /\ normInput = ""
  /\ textResult = NotNormalized
  /\ moveResult = NotNormalized

EstimateIdle ==
  /\ estimateScenes = <<>>
  /\ estimateAudio = [k \in AudioKeys |-> Undef]
  /\ estimate = NoEstimate

ChaptersIdle ==
  /\ chapterScenes = <<>>
  /\ chaptersResult = NoChapters

TagsIdle ==
  /\ tagMeta = [white |-> "", black |-> "", event |-> "", eco |-> ""]
  /\ tagScenes = <<>>
  /\ tagsResult = NoList
  /\ highlightsResult = NoList

InitTiming == TimingInit /\ DurationIdle /\ VideoIdle /\ StoreInit /\
    PreviewIdle /\ EvalBarIdle /\ LoadersInit /\ TtsInit /\ NormalizerIdle /\
    EstimateIdle /\ TagsIdle /\ UploaderInit /\ ChaptersIdle

InitDuration == DurationInit /\ TimingIdle /\ VideoIdle /\ StoreInit /\
    PreviewIdle /\ EvalBarIdle /\ LoadersInit /\ TtsInit /\ NormalizerIdle /\
    EstimateIdle /\ TagsIdle /\ UploaderInit /\ ChaptersIdle

InitVideo == VideoInit /\ TimingIdle /\ DurationIdle /\ StoreInit /\
    PreviewIdle /\ EvalBarIdle /\ LoadersInit /\ TtsInit /\ NormalizerIdle /\
    EstimateIdle /\ TagsIdle /\ UploaderInit /\ ChaptersIdle

InitStore == StoreInit /\ TimingIdle /\ DurationIdle /\ VideoIdle /\
    PreviewIdle /\ EvalBarIdle /\ LoadersInit /\ TtsInit /\ NormalizerIdle /\
    EstimateIdle /\ TagsIdle /\ UploaderInit /\ ChaptersIdle

InitPreview == PreviewInit /\ TimingIdle /\ DurationIdle /\ VideoIdle /\
    StoreInit /\ EvalBarIdle /\ LoadersInit /\ TtsInit /\ NormalizerIdle /\
    EstimateIdle /\ TagsIdle /\ UploaderInit /\ ChaptersIdle

InitEvalBar == EvalBarInit /\ TimingIdle /\ DurationIdle /\ VideoIdle /\
    StoreInit /\ PreviewIdle /\ LoadersInit /\ TtsInit /\ NormalizerIdle /\
    EstimateIdle /\ TagsIdle /\ UploaderInit /\ ChaptersIdle

InitLoaders == LoadersInit /\ TimingIdle /\ DurationIdle /\ VideoIdle /\
    StoreInit /\ PreviewIdle /\ EvalBarIdle /\ TtsInit /\ NormalizerIdle /\
    EstimateIdle /\ TagsIdle /\ UploaderInit /\ ChaptersIdle

InitTts == TtsInit /\ TimingIdle /\ DurationIdle /\ VideoIdle /\ StoreInit /\
    PreviewIdle /\ EvalBarIdle /\ LoadersInit /\ NormalizerIdle /\
    EstimateIdle /\ TagsIdle /\ UploaderInit /\ ChaptersIdle

InitNormalizer == NormalizerInit /\ TimingIdle /\ DurationIdle /\
    VideoIdle /\ StoreInit /\ PreviewIdle /\ EvalBarIdle /\ LoadersInit /\
    TtsInit /\ EstimateIdle /\ TagsIdle /\ UploaderInit /\ ChaptersIdle

InitEstimate == EstimateInit /\ TimingIdle /\ DurationIdle /\ VideoIdle /\
    StoreInit /\ PreviewIdle /\ EvalBarIdle /\ LoadersInit /\ TtsInit /\
    NormalizerIdle /\ TagsIdle /\ UploaderInit /\ ChaptersIdle

InitTags == TagsInit /\ TimingIdle /\ DurationIdle /\ VideoIdle /\
    StoreInit /\ PreviewIdle /\ EvalBarIdle /\ LoadersInit /\ TtsInit /\
    NormalizerIdle /\ EstimateIdle /\ UploaderInit /\ ChaptersIdle

InitUploader == UploaderInit /\ TimingIdle /\ DurationIdle /\ VideoIdle /\
    StoreInit /\ PreviewIdle /\ EvalBarIdle /\ LoadersInit /\ TtsInit /\
    NormalizerIdle /\ EstimateIdle /\ TagsIdle /\ ChaptersIdle

InitChapters == ChaptersInit /\ TimingIdle /\ DurationIdle /\ VideoIdle /\
    StoreInit /\ PreviewIdle /\ EvalBarIdle /\ LoadersInit /\ TtsInit /\
    NormalizerIdle /\ EstimateIdle /\ TagsIdle /\ UploaderInit

\* cue resolution: the three getAnimationTiming implementations
SpecTiming == InitTiming /\ [][TimingNext]_vars

\* scene duration: the two calculateSceneDuration copies
SpecDuration == InitDuration /\ [][DurationNext]_vars

\* the renderer: timeline loading and the layout of its scenes in frames
SpecVideo == InitVideo /\ [][VideoNext]_vars

\* the store: inserts into games and analysis_cache
SpecStore == InitStore /\ [][StoreNext]_vars

\* the alternative preview's evaluation label, both definitions
SpecPreview == InitPreview /\ [][PreviewNext]_vars

\* the evaluation bar, frame by frame
SpecEvalBar == InitEvalBar /\ [][EvalBarNext]_vars

\* the loaders of timeline.json and audio_durations.json, call by call
SpecLoaders == InitLoaders /\ [][LoadersNext]_vars

\* voice synthesis: ttsBatch calls over one output directory, line by line
SpecTts == InitTts /\ [][TtsNext]_vars

\* text normalization: normalizeText and normalizeMove on one input
SpecNormalizer == InitNormalizer /\ [][NormalizerNext]_vars


\* the estimate of the total duration from scenes and measured audio
SpecEstimate == InitEstimate /\ [][EstimateNext]_vars


\* the uploader's tags and highlights for one timeline
SpecTags == InitTags /\ [][TagsNext]_vars

SpecUploader == InitUploader /\ [][UploaderNext]_vars

SpecChapters == InitChapters /\ [][ChaptersNext]_vars

====
